---------------------------- MODULE Spec2Model ----------------------------
(***************************************************************************)
(* Model of the two LUSAS model-generation scripts of this repository:     *)
(*   - the bridge-abutment script (src/unnamed/part_000), and              *)
(*   - the tunnel script (src/Tunnel.py).                                  *)
(*                                                                         *)
(* Lengths are Python floats in the source.  The model represents every    *)
(* length as an exact rational <<numerator, denominator>> in lowest terms  *)
(* with a positive denominator, so that equality of two lengths is         *)
(* equality of tuples.  The abutment's sums and differences of validated   *)
(* dimension literals are exact in binary floating point as well.  The     *)
(* tunnel script compares sums it computes in two different orders, so its *)
(* arithmetic is modelled with rounding (Fl, ++, --, Half below).          *)
(***************************************************************************)
EXTENDS Integers, Sequences, FiniteSets, TLC

VARIABLES
    script,      \* which script runs: "abutment", "tunnel", or a function harness
    dims,        \* the dimension inputs of the run (a record of rationals)
    pc,          \* position of the script
    errors,      \* abutment: the list `errors` of validation messages
    printed,     \* what the script has printed so far (report lines that matter)
    calls,       \* the calls issued to the external application, in order
    exitStatus,  \* process exit status; -1 while the script runs
    x_value,     \* abutment: the derived slope coordinate
    flipped,     \* lines the application returns end-first (set of line ids)
    assigned,    \* attribute assignments issued: sequence of records
    loadcases,   \* the loadcases of the analysis, in order
    edge,        \* function harness: the edge handed to the classifiers
    geometry,    \* tunnel: quadrants, surfaces, lining_lines, tunnel_surface, refined_zones
    activation,  \* tunnel: Activate / Deactivate assignments issued
    solver       \* the application's solver: "idle", "running" or "finished"

vars == <<script, dims, pc, errors, printed, calls, exitStatus, x_value,
          flipped, assigned, loadcases, edge, geometry, activation, solver>>

---------------------------------------------------------------------------
(* Exact arithmetic on lengths *)

Abs(n) == IF n < 0 THEN -n ELSE n

RECURSIVE GCD(_, _)
GCD(a, b) == IF b = 0 THEN a ELSE GCD(b, a % b)

\* n/d in lowest terms, denominator positive (d # 0)
R(n, d) ==
    LET sn == IF d < 0 THEN -n ELSE n
        sd == Abs(d)
        g  == GCD(Abs(sn), sd)
    IN  <<sn \div g, sd \div g>>

N(n) == <<n, 1>>

RAdd(a, b) == R(a[1] * b[2] + b[1] * a[2], a[2] * b[2])
RSub(a, b) == R(a[1] * b[2] - b[1] * a[2], a[2] * b[2])
RMul(a, b) == R(a[1] * b[1], a[2] * b[2])
\* Python's a / b for b # 0 (b = 0 raises ZeroDivisionError, see XValue)
RDiv(a, b) == R(a[1] * b[2], a[2] * b[1])
RNeg(a)    == <<-a[1], a[2]>>
RLe(a, b)  == a[1] * b[2] <= b[1] * a[2]
RLt(a, b)  == a[1] * b[2] <  b[1] * a[2]

\* Not a length: a variable not assigned yet, and the outcome of a division
\* by zero (Python raises ZeroDivisionError)
Unset == <<0, 0>>
ZeroDivisionError == <<1, 0>>

a \oplus b  == RAdd(a, b)
a \ominus b == RSub(a, b)
a \odot b   == RMul(a, b)
a \oslash b == RDiv(a, b)
a \preceq b == RLe(a, b)
a \prec b   == RLt(a, b)
a \succeq b == RLe(b, a)
a \succ b   == RLt(b, a)

\* Binary floating point, as far as the tunnel script needs it.  A Python
\* float carries 53 significant bits; the model carries Precision of them,
\* and rounds the exact result of an operation to the nearest value it can
\* hold, ties to the even one (exponent range is not modelled).  Values that
\* fit, such as the shipped dimensions, their sums and halves, are not
\* changed by the rounding.
Precision == 8

RECURSIVE IsPow2(_)
IsPow2(d) == d = 1 \/ (d % 2 = 0 /\ IsPow2(d \div 2))

\* The exponent e >= 0 with 2^(Precision-1) <= (a/d) / 2^e < 2^Precision
RECURSIVE ExpUp(_, _, _)
ExpUp(a, d, e) == IF a >= d * 2^(Precision + e) THEN ExpUp(a, d, e + 1) ELSE e

\* The k >= 0 with 2^(Precision-1) <= (a/d) * 2^k < 2^Precision
RECURSIVE ExpDown(_, _, _)
ExpDown(a, d, k) == IF a * 2^k < d * 2^(Precision - 1) THEN ExpDown(a, d, k + 1) ELSE k

\* num/den rounded to an integer, ties to even
RoundHalfEven(num, den) ==
    LET q == num \div den
        r == num % den
    IN  IF 2 * r > den \/ (2 * r = den /\ q % 2 = 1) THEN q + 1 ELSE q

\* The float nearest to the number x
Fl(x) ==
    LET a == Abs(x[1])
        d == x[2]
        sign == IF x[1] < 0 THEN -1 ELSE 1
    IN  IF a = 0 \/ (a < 2^Precision /\ IsPow2(d)) THEN x
        ELSE IF a >= d * 2^(Precision - 1)
        THEN LET e == ExpUp(a, d, 0)
             IN  R(sign * RoundHalfEven(a, d * 2^e) * 2^e, 1)
        ELSE LET k == ExpDown(a, d, 0)
             IN  R(sign * RoundHalfEven(a * 2^k, d), 2^k)

\* Python's a + b and a - b on floats
a ++ b == Fl(RAdd(a, b))
a -- b == Fl(RSub(a, b))

---------------------------------------------------------------------------
(* Bridge abutment: dimension inputs *)

\* The values shipped in the script (lines 25-34)
ShippedDims ==
    [d |-> N(12), t |-> N(3), s |-> N(5), w |-> N(30), h3 |-> N(5),
     h4 |-> R(7, 2), h1 |-> N(8), h2 |-> R(23, 2), f |-> N(5), b |-> R(3, 2)]

\* The values an editor of the script is modelled to try for each dimension:
\* the shipped value, values on and beyond the limits of the checks.
DVals  == {N(2), N(12)}
TVals  == {N(0), N(3)}
SVals  == {N(1), N(5), N(11)}
WVals  == {N(21), N(30), N(101)}
H1Vals == {N(0), N(8), R(23, 2)}
H2Vals == {N(9), R(23, 2), N(101)}
H3Vals == {N(1), N(5), N(101)}
H4Vals == {N(0), R(7, 2), N(4)}
FVals  == {N(0), N(1), N(5), N(10)}
BVals  == {N(1), R(3, 2), N(3)}

DimensionSets ==
    [d : DVals, t : TVals, s : SVals, w : WVals, h3 : H3Vals,
     h4 : H4Vals, h1 : H1Vals, h2 : H2Vals, f : FVals, b : BVals]

---------------------------------------------------------------------------
(* Bridge abutment: parameter validation (lines 57-108) *)

Msg(param, rule) == [param |-> param, rule |-> rule]

\* `if cond: errors.append(msg)`
AppendIf(errs, cond, msg) == IF cond THEN Append(errs, msg) ELSE errs

\* The fifteen tests of lines 60-107 with the message each one guards
Checks(p) ==
          <<  <<~(N(3) \preceq p.d /\ p.d \preceq N(100)), Msg("d", "between 3 and 100")>>,
              <<~(N(1) \preceq p.t /\ p.t \preceq N(100)), Msg("t", "between 1 and 100")>>,
              <<~(N(1) \preceq p.s /\ p.s \preceq N(10)), Msg("s", "between 1 and 10")>>,
              <<p.w \prec (((p.d \oplus p.t) \oplus p.s) \oplus N(2)), Msg("w", "not less than d+t+s+2")>>,
              <<p.w \succ N(100), Msg("w", "not exceed 100")>>,
              <<p.h1 \prec N(1), Msg("h1", "at least 1")>>,
              <<p.h1 \succeq p.h2, Msg("h1", "less than h2")>>,
              <<p.h2 \prec (p.h1 \oplus N(2)), Msg("h2", "at least h1+2")>>,
              <<p.h2 \succ N(100), Msg("h2", "not exceed 100")>>,
              <<~(N(2) \preceq p.h3 /\ p.h3 \preceq N(100)), Msg("h3", "between 2 and 100")>>,
              <<p.h4 \prec N(1), Msg("h4", "at least 1")>>,
              <<p.h4 \succeq (p.h3 \ominus N(1)), Msg("h4", "less than h3-1")>>,
              <<p.f \prec N(1), Msg("f", "at least 1")>>,
              <<p.f \succeq (p.d \ominus N(2)), Msg("f", "less than d-2")>>,
              <<~(N(1) \preceq p.b /\ p.b \preceq N(2)), Msg("b", "between 1 and 2")>> >>

\* Validation without the test of line 92 (h4 less than h3-1)
ValidateNoH4Limit(p) ==
    LET idx == SelectSeq([i \in 1..Len(Checks(p)) |-> i],
                         LAMBDA i : i # 12 /\ Checks(p)[i][1])
    IN  [k \in 1..Len(idx) |-> Checks(p)[idx[k]][2]]

\* Stops at the first failing check (what a short-circuiting validator does)
ValidateFirstOnly(p) ==
    LET failing == {i \in 1..Len(Checks(p)) : Checks(p)[i][1]}
    IN  IF failing = {} THEN <<>>
        ELSE <<Checks(p)[CHOOSE i \in failing : \A j \in failing : i <= j][2]>>

\* The list `errors` after line 108: every check runs, each failing check
\* appends its message.
Validate(p) ==
    LET min_w == ((p.d \oplus p.t) \oplus p.s) \oplus N(2)
        e0  == <<>>
        e1  == AppendIf(e0, ~(N(3) \preceq p.d /\ p.d \preceq N(100)),
                        Msg("d", "between 3 and 100"))
        e2  == AppendIf(e1, ~(N(1) \preceq p.t /\ p.t \preceq N(100)),
                        Msg("t", "between 1 and 100"))
        e3  == AppendIf(e2, ~(N(1) \preceq p.s /\ p.s \preceq N(10)),
                        Msg("s", "between 1 and 10"))
        e4  == AppendIf(e3, p.w \prec min_w, Msg("w", "not less than d+t+s+2"))
        e5  == AppendIf(e4, p.w \succ N(100), Msg("w", "not exceed 100"))
        e6  == AppendIf(e5, p.h1 \prec N(1), Msg("h1", "at least 1"))
        e7  == AppendIf(e6, p.h1 \succeq p.h2, Msg("h1", "less than h2"))
        e8  == AppendIf(e7, p.h2 \prec (p.h1 \oplus N(2)), Msg("h2", "at least h1+2"))
        e9  == AppendIf(e8, p.h2 \succ N(100), Msg("h2", "not exceed 100"))
        e10 == AppendIf(e9, ~(N(2) \preceq p.h3 /\ p.h3 \preceq N(100)),
                        Msg("h3", "between 2 and 100"))
        e11 == AppendIf(e10, p.h4 \prec N(1), Msg("h4", "at least 1"))
        e12 == AppendIf(e11, p.h4 \succeq (p.h3 \ominus N(1)), Msg("h4", "less than h3-1"))
        e13 == AppendIf(e12, p.f \prec N(1), Msg("f", "at least 1"))
        e14 == AppendIf(e13, p.f \succeq (p.d \ominus N(2)), Msg("f", "less than d-2"))
        e15 == AppendIf(e14, ~(N(1) \preceq p.b /\ p.b \preceq N(2)),
                        Msg("b", "between 1 and 2"))
    IN  e15

---------------------------------------------------------------------------
(* Bridge abutment: geometry derivation (lines 155-185) *)

\* x_value of lines 156-158.  A float division by zero raises
\* ZeroDivisionError in Python; the guard of line 157 keeps it from happening.
XValueUnguarded(p) ==
    LET den == ((p.h2 \oplus p.h3) \ominus p.h4) \ominus p.h1
    IN  IF den = N(0) THEN ZeroDivisionError
        ELSE p.t \oplus (((p.h2 \ominus p.h1) \oslash den)
                           \odot (((p.w \ominus p.d) \ominus p.s) \ominus p.t))

XValue(p) ==
    LET den == ((p.h2 \oplus p.h3) \ominus p.h4) \ominus p.h1
    IN  IF den # N(0)
        THEN p.t \oplus (((p.h2 \ominus p.h1) \oslash den)
                           \odot (((p.w \ominus p.d) \ominus p.s) \ominus p.t))
        ELSE p.t

Pt(x, y) == <<x, y>>
PX(pt) == pt[1]
PY(pt) == pt[2]

\* xs, ys of surface 1 (lines 166-167)
Surface1(p, xv) ==
    << Pt(N(0), N(0)), Pt(p.w, N(0)), Pt(p.w, p.h2),
       Pt((p.w \ominus p.d) \oplus p.b, p.h2), Pt(p.w \ominus p.d, p.h2),
       Pt((p.w \ominus p.d) \ominus p.b, p.h2), Pt(xv, p.h2),
       Pt(p.t, p.h1), Pt(N(0), p.h1) >>

\* xs, ys of surface 2 (lines 174-175)
Surface2(p, xv) ==
    << Pt(xv, p.h2), Pt((p.w \ominus p.d) \ominus p.b, p.h2),
       Pt(p.w \ominus p.d, p.h2),
       Pt(p.w \ominus p.d, (p.h2 \oplus p.h3) \ominus p.h4),
       Pt((p.w \ominus p.d) \ominus p.s, (p.h2 \oplus p.h3) \ominus p.h4) >>

\* xs, ys of surface 3 (lines 182-183)
Surface3(p, xv) ==
    << Pt(p.w \ominus p.d, p.h2),
       Pt(p.w \ominus p.d, (p.h2 \oplus p.h3) \ominus p.h4),
       Pt(p.w \ominus p.d, p.h2 \oplus p.h3),
       Pt((p.w \ominus p.d) \oplus p.f, p.h2 \oplus p.h3),
       Pt(p.w, p.h2 \oplus p.h3), Pt(p.w, p.h2),
       Pt((p.w \ominus p.d) \oplus p.b, p.h2) >>

\* A line of the application: its start point and its end point.
Line(a, b) == [start |-> a, end |-> b, kind |-> "straight"]
Swap(ln)   == [start |-> ln.end, end |-> ln.start, kind |-> ln.kind]
\* Coincident lines are merged by the application: a line is identified by
\* its two end points (and by what it is: a straight line, an arc of the
\* tunnel circle, or the unmergeable copy of one).
LineId(ln) == [ends |-> {ln.start, ln.end}, kind |-> ln.kind]

\* Nothing built yet
NoGeometry == [quadrants |-> <<>>, surfaces |-> <<>>, lining_lines |-> <<>>,
               tunnel_surface |-> <<>>, refined_zones |-> <<>>]

\* The boundary lines of a surface created from an outline: one line between
\* each vertex and the next, the last vertex joined to the first.
Outline(vs) ==
    [i \in 1..Len(vs) |-> Line(vs[i], vs[(i % Len(vs)) + 1])]

RECURSIVE Concat(_)
Concat(seqs) ==
    IF seqs = <<>> THEN <<>> ELSE Head(seqs) \o Concat(Tail(seqs))

\* The direction in which a line was first created
FirstCreated(id, created) ==
    created[CHOOSE i \in 1..Len(created) :
                /\ LineId(created[i]) = id
                /\ \A j \in 1..(i - 1) : LineId(created[j]) # id]

\* addLOF("Lines").getObjects("Line") of a surface: its boundary lines, each
\* with the start and end point the application reports for it.
SurfLines(vs, created, fl) ==
    [i \in 1..Len(vs) |->
        LET id == LineId(Outline(vs)[i])
            ln == FirstCreated(id, created)
        IN  IF id \in fl THEN Swap(ln) ELSE ln]

AbutmentCreated(p, xv) ==
    Outline(Surface1(p, xv)) \o Outline(Surface2(p, xv)) \o Outline(Surface3(p, xv))

surfLines1(p, xv, fl) == SurfLines(Surface1(p, xv), AbutmentCreated(p, xv), fl)
surfLines2(p, xv, fl) == SurfLines(Surface2(p, xv), AbutmentCreated(p, xv), fl)
surfLines3(p, xv, fl) == SurfLines(Surface3(p, xv), AbutmentCreated(p, xv), fl)

---------------------------------------------------------------------------
(* Bridge abutment: the edge classifiers.  Each gives, for one line, the    *)
(* attributes assigned to it by one pass of the loop, in call order.       *)

SX(ln) == PX(ln.start)
SY(ln) == PY(ln.start)
EX(ln) == PX(ln.end)
EY(ln) == PY(ln.end)

\* Only the first orientation is tested (the elif of line 210 left out)
LineMesh2OneWay(ln, p) ==
    IF SX(ln) = ((p.w \ominus p.d) \ominus p.b) /\ EX(ln) = (p.w \ominus p.d)
    THEN <<"wall">>
    ELSE <<"EL 1">>

\* Surface 2, line mesh (lines 207-213)
LineMesh2(ln, p) ==
    IF SX(ln) = ((p.w \ominus p.d) \ominus p.b) /\ EX(ln) = (p.w \ominus p.d)
    THEN <<"wall">>
    ELSE IF SX(ln) = (p.w \ominus p.d) /\ EX(ln) = ((p.w \ominus p.d) \ominus p.b)
    THEN <<"wall">>
    ELSE <<"EL 1">>

\* The two tests of lines 220-221 as independent statements, the default
\* mesh assigned whenever the line is not a wall line by the second test
LineMesh3Flat(ln, p) ==
    (IF SX(ln) = (p.w \ominus p.d) \/ EX(ln) = (p.w \ominus p.d)
     THEN <<"wall">> ELSE <<>>)
    \o (IF SX(ln) # ((p.w \ominus p.d) \oplus p.f) /\ EX(ln) # ((p.w \ominus p.d) \oplus p.f)
        THEN <<"EL 1">> ELSE <<>>)

\* Surface 3, line mesh (lines 219-226)
LineMesh3(ln, p) ==
    IF SX(ln) = (p.w \ominus p.d) \/ EX(ln) = (p.w \ominus p.d)
    THEN IF SX(ln) # ((p.w \ominus p.d) \oplus p.f) /\ EX(ln) # ((p.w \ominus p.d) \oplus p.f)
         THEN <<"wall">>
         ELSE <<"EL 1">>
    ELSE <<"EL 1">>

\* The three tests as independent if statements (elif read as if)
Support1NoElif(ln, p) ==
    (IF SY(ln) = N(0) /\ EY(ln) = N(0) THEN <<"FixXY">> ELSE <<>>)
    \o (IF SX(ln) = N(0) /\ EX(ln) = N(0) THEN <<"FixX">> ELSE <<>>)
    \o (IF SX(ln) = p.w /\ EX(ln) = p.w THEN <<"FixX">> ELSE <<>>)

\* Surface 1, supports (lines 240-246)
Support1(ln, p) ==
    IF SY(ln) = N(0) /\ EY(ln) = N(0) THEN <<"FixXY">>
    ELSE IF SX(ln) = N(0) /\ EX(ln) = N(0) THEN <<"FixX">>
    ELSE IF SX(ln) = p.w /\ EX(ln) = p.w THEN <<"FixX">>
    ELSE <<>>

\* One end on the right side is taken to be enough (or where the source
\* has and)
Support3EitherEnd(ln, p) ==
    IF SX(ln) = p.w \/ EX(ln) = p.w THEN <<"FixX">> ELSE <<>>

\* Surface 3, supports (lines 248-250)
Support3(ln, p) ==
    IF SX(ln) = p.w /\ EX(ln) = p.w THEN <<"FixX">> ELSE <<>>

\* Surface 2, concrete material (lines 288-292)
Concrete2(ln, p) ==
    IF SX(ln) = ((p.w \ominus p.d) \ominus p.b) /\ EX(ln) = (p.w \ominus p.d)
    THEN <<"Concrete">>
    ELSE IF SX(ln) = (p.w \ominus p.d) /\ EX(ln) = ((p.w \ominus p.d) \ominus p.b)
    THEN <<"Concrete">>
    ELSE <<>>

\* Surface 3, concrete material (lines 294-297)
Concrete3(ln, p) ==
    IF SX(ln) = (p.w \ominus p.d) \/ EX(ln) = (p.w \ominus p.d)
    THEN IF SX(ln) # ((p.w \ominus p.d) \oplus p.f) /\ EX(ln) # ((p.w \ominus p.d) \oplus p.f)
         THEN <<"Concrete">>
         ELSE <<>>
    ELSE <<>>

\* Surface 2, beam section (lines 307-311)
BeamGeometry2(ln, p) ==
    IF SX(ln) = ((p.w \ominus p.d) \ominus p.b) /\ EX(ln) = (p.w \ominus p.d)
    THEN <<"Beam Geometry">>
    ELSE IF SX(ln) = (p.w \ominus p.d) /\ EX(ln) = ((p.w \ominus p.d) \ominus p.b)
    THEN <<"Beam Geometry">>
    ELSE <<>>

\* BeamGeometry3 without the exclusion of the load-projection edge (line 315)
BeamGeometry3AllAtWall(ln, p) ==
    IF SX(ln) = (p.w \ominus p.d) \/ EX(ln) = (p.w \ominus p.d)
    THEN <<"Beam Geometry">>
    ELSE <<>>

\* Surface 3, beam section (lines 313-316)
BeamGeometry3(ln, p) ==
    IF SX(ln) = (p.w \ominus p.d) \/ EX(ln) = (p.w \ominus p.d)
    THEN IF SX(ln) # ((p.w \ominus p.d) \oplus p.f) /\ EX(ln) # ((p.w \ominus p.d) \oplus p.f)
         THEN <<"Beam Geometry">>
         ELSE <<>>
    ELSE <<>>

\* One record of `assigned` per assignTo of an attribute to a line
Assignment(stage, surface, ln, attr) ==
    [stage |-> stage, surface |-> surface, line |-> LineId(ln), attr |-> attr]

\* The assignments of one pass: attrs[i] are the attributes assigned to
\* lines[i], the lines taken in list order.
Pass(stage, surface, lines, attrs) ==
    Concat([i \in 1..Len(lines) |->
              [j \in 1..Len(attrs[i]) |->
                  Assignment(stage, surface, lines[i], attrs[i][j])]])

---------------------------------------------------------------------------
(* Bridge abutment: the script, top to bottom *)

\* At most this many lines are reported end-first by the application
MaxFlipped == 1

Line_(text, about) == [text |-> text, about |-> about]

\* A loadcase of the analysis and the number of times the script has set
\* its controls
Loadcase(name) == [name |-> name, configured |-> 0]

\* getLoadset(name) ... setTransientControl(0) on the loadcase of that name
Configure(lcs, name) ==
    [i \in 1..Len(lcs) |->
        IF lcs[i].name = name
        THEN [lcs[i] EXCEPT !.configured = lcs[i].configured + 1]
        ELSE lcs[i]]

\* print of lines 112-116: the header, one line per error, the closing lines
ErrorReport(errs) ==
    <<Line_("PARAMETER VALIDATION ERRORS:", "")>>
    \o [i \in 1..Len(errs) |-> Line_(errs[i].rule, errs[i].param)]
    \o <<Line_("Cannot proceed with model creation", "")>>

AbutmentLineIds(p, xv) ==
    {LineId(AbutmentCreated(p, xv)[i]) : i \in 1..Len(AbutmentCreated(p, xv))}

Orientations(ids) == {fl \in SUBSET ids : Cardinality(fl) <= MaxFlipped}

InitAbutment ==
    /\ script = "abutment"
    /\ dims \in DimensionSets
    /\ pc = "validate"
    /\ errors = <<>>
    /\ printed = <<>>
    /\ calls = <<>>
    /\ exitStatus = -1
    /\ x_value = Unset
    /\ flipped = {}
    /\ assigned = <<>>
    /\ loadcases = <<>>
    /\ edge = Line(Pt(N(0), N(0)), Pt(N(0), N(0)))
    /\ geometry = NoGeometry
    /\ activation = <<>>
    /\ solver = "idle"

\* lines 57-108
AValidate ==
    /\ script = "abutment" /\ pc = "validate"
    /\ errors' = Validate(dims)
    /\ pc' = "check"
    /\ UNCHANGED <<script, dims, printed, calls, exitStatus, x_value, flipped,
                   assigned, loadcases, edge, geometry, activation, solver>>

\* The report is printed, but the script goes on to build the model
ACheckErrorsNoExit ==
    /\ script = "abutment" /\ pc = "check"
    /\ printed' = printed \o (IF errors # <<>> THEN ErrorReport(errors)
                              ELSE <<Line_("All parameters are valid!", "")>>)
    /\ pc' = "connect"
    /\ UNCHANGED <<script, dims, errors, calls, exitStatus, x_value, flipped,
                   assigned, loadcases, edge, geometry, activation, solver>>

\* lines 111-120
ACheckErrors ==
    /\ script = "abutment" /\ pc = "check"
    /\ IF errors # <<>>
       THEN /\ printed' = printed \o ErrorReport(errors)
            /\ exitStatus' = 1
            /\ pc' = "exited"
       ELSE /\ printed' = Append(printed, Line_("All parameters are valid!", ""))
            /\ exitStatus' = exitStatus
            /\ pc' = "connect"
    /\ UNCHANGED <<script, dims, errors, calls, x_value, flipped, assigned,
                   loadcases, edge, geometry, activation, solver>>

\* The handler prints the message and the script goes on to save the model
\* (the try block ending before the save)
CaughtThenSaves(message) ==
    /\ printed' = printed \o <<Line_("Error creating model", message),
                               Line_("Failed to create bridge abutment model.", "")>>
    /\ pc' = "save"
    /\ exitStatus' = exitStatus

\* The except clause of lines 359-361: the message is printed and the script
\* ends normally.
Caught(message) ==
    /\ printed' = printed \o <<Line_("Error creating model", message),
                               Line_("Failed to create bridge abutment model.", "")>>
    /\ pc' = "failed"
    /\ exitStatus' = 0

\* The message is printed but the script carries on (print where the
\* source has raise)
AConnectWarnsOnly ==
    /\ script = "abutment" /\ pc = "connect"
    /\ \E exists \in BOOLEAN, modified \in BOOLEAN :
         /\ calls' = calls \o <<"get_lusas_modeller", "existsDatabase">>
                           \o (IF exists THEN <<"isModified">> ELSE <<>>)
         /\ printed' = IF exists /\ modified
                       THEN Append(printed, Line_("Error creating model",
                              "Save or close the current model before running this code"))
                       ELSE printed
         /\ pc' = "new_project"
    /\ UNCHANGED <<script, dims, errors, exitStatus, x_value, flipped, assigned,
                   loadcases, edge, geometry, activation, solver>>

\* lines 130-134; whether a model is open and modified is the application's
AConnect ==
    /\ script = "abutment" /\ pc = "connect"
    /\ \E exists \in BOOLEAN, modified \in BOOLEAN :
         /\ calls' = calls \o <<"get_lusas_modeller", "existsDatabase">>
                           \o (IF exists THEN <<"isModified">> ELSE <<>>)
         /\ IF exists /\ modified
            THEN Caught("Save or close the current model before running this code")
            ELSE /\ pc' = "new_project"
                 /\ UNCHANGED <<printed, exitStatus>>
    /\ UNCHANGED <<script, dims, errors, x_value, flipped, assigned, loadcases, edge, geometry, activation, solver>>

\* lines 137-153
ANewProject ==
    /\ script = "abutment" /\ pc = "new_project"
    /\ calls' = calls \o <<"newProject", "getDatabase", "setVisible", "enableUI",
                           "setAnalysisCategory", "setVerticalDir", "setModelUnits",
                           "Helpers.initialise">>
    /\ loadcases' = <<Loadcase("Loadcase 1")>>
    /\ pc' = "x_value"
    /\ UNCHANGED <<script, dims, errors, printed, exitStatus, x_value, flipped,
                   assigned, edge, geometry, activation, solver>>

\* lines 155-158
AXValue ==
    /\ script = "abutment" /\ pc = "x_value"
    /\ IF XValue(dims) = ZeroDivisionError
       THEN /\ Caught("float division by zero")
            /\ UNCHANGED x_value
       ELSE /\ x_value' = XValue(dims)
            /\ pc' = "surfaces"
            /\ UNCHANGED <<printed, exitStatus>>
    /\ UNCHANGED <<script, dims, errors, calls, flipped, assigned, loadcases, edge, geometry, activation, solver>>

\* lines 166-186; the direction the application gives each line is its own
ACreateSurfaces ==
    /\ script = "abutment" /\ pc = "surfaces"
    /\ calls' = calls \o <<"create_surface_by_coordinates",
                           "create_surface_by_coordinates",
                           "create_surface_by_coordinates">>
    /\ flipped' \in Orientations(AbutmentLineIds(dims, x_value))
    /\ pc' = "meshing"
    /\ UNCHANGED <<script, dims, errors, printed, exitStatus, x_value, assigned,
                   loadcases, edge, geometry, activation, solver>>

\* lines 190-230
AMeshing ==
    /\ script = "abutment" /\ pc = "meshing"
    /\ LET l1 == surfLines1(dims, x_value, flipped)
           l2 == surfLines2(dims, x_value, flipped)
           l3 == surfLines3(dims, x_value, flipped)
       IN  assigned' = assigned
              \o Pass("line mesh", "surface1", l1, [i \in 1..Len(l1) |-> <<"EL 1">>])
              \o Pass("line mesh", "surface2", l2, [i \in 1..Len(l2) |-> LineMesh2(l2[i], dims)])
              \o Pass("line mesh", "surface3", l3, [i \in 1..Len(l3) |-> LineMesh3(l3[i], dims)])
    /\ calls' = calls \o <<"createMeshSurface", "assignTo", "createMeshLine",
                           "assignTo", "createMeshLine", "createMeshLine", "assignTo",
                           "createMeshLine", "createMeshLine", "assignTo", "updateMesh">>
    /\ pc' = "supports"
    /\ UNCHANGED <<script, dims, errors, printed, exitStatus, x_value, flipped,
                   loadcases, edge, geometry, activation, solver>>

\* lines 234-250
ASupports ==
    /\ script = "abutment" /\ pc = "supports"
    /\ LET l1 == surfLines1(dims, x_value, flipped)
           l3 == surfLines3(dims, x_value, flipped)
       IN  assigned' = assigned
              \o Pass("support", "surface1", l1, [i \in 1..Len(l1) |-> Support1(l1[i], dims)])
              \o Pass("support", "surface3", l3, [i \in 1..Len(l3) |-> Support3(l3[i], dims)])
    /\ calls' = calls \o <<"createSupportStructural", "createSupportStructural", "assignTo">>
    /\ pc' = "materials"
    /\ UNCHANGED <<script, dims, errors, printed, exitStatus, x_value, flipped,
                   loadcases, edge, geometry, activation, solver>>

\* lines 254-297
AMaterials ==
    /\ script = "abutment" /\ pc = "materials"
    /\ LET l2 == surfLines2(dims, x_value, flipped)
           l3 == surfLines3(dims, x_value, flipped)
       IN  assigned' = assigned
              \o Pass("material", "surface2", l2, [i \in 1..Len(l2) |-> Concrete2(l2[i], dims)])
              \o Pass("material", "surface3", l3, [i \in 1..Len(l3) |-> Concrete3(l3[i], dims)])
    /\ calls' = calls \o <<"createIsotropicMaterial", "assignTo",
                           "createIsotropicMaterial", "assignTo">>
    /\ pc' = "geometric"
    /\ UNCHANGED <<script, dims, errors, printed, exitStatus, x_value, flipped,
                   loadcases, edge, geometry, activation, solver>>

\* lines 301-316
AGeometric ==
    /\ script = "abutment" /\ pc = "geometric"
    /\ LET l2 == surfLines2(dims, x_value, flipped)
           l3 == surfLines3(dims, x_value, flipped)
       IN  assigned' = assigned
              \o Pass("geometric", "surface2", l2, [i \in 1..Len(l2) |-> BeamGeometry2(l2[i], dims)])
              \o Pass("geometric", "surface3", l3, [i \in 1..Len(l3) |-> BeamGeometry3(l3[i], dims)])
    /\ calls' = calls \o <<"createGeometricLine", "assignTo">>
    /\ pc' = "loading"
    /\ UNCHANGED <<script, dims, errors, printed, exitStatus, x_value, flipped,
                   loadcases, edge, geometry, activation, solver>>

\* lines 320-330: the load goes on the third line of surface 3's list
ALoading ==
    /\ script = "abutment" /\ pc = "loading"
    /\ assigned' = Append(assigned,
          Assignment("loading", "surface3", surfLines3(dims, x_value, flipped)[3], "GlbD2"))
    /\ calls' = calls \o <<"createLoadingGlobalDistributed", "assignTo">>
    /\ pc' = "loadcase"
    /\ UNCHANGED <<script, dims, errors, printed, exitStatus, x_value, flipped,
                   loadcases, edge, geometry, activation, solver>>

\* lines 334-340
ALoadcase ==
    /\ script = "abutment" /\ pc = "loadcase"
    /\ loadcases' = Configure(loadcases, "Loadcase 1")
    /\ calls' = calls \o <<"getLoadset", "addGravity", "setTransientControl">>
    /\ pc' = "save"
    /\ UNCHANGED <<script, dims, errors, printed, exitStatus, x_value, flipped,
                   assigned, edge, geometry, activation, solver>>

\* lines 343-344
ASave ==
    /\ script = "abutment" /\ pc = "save"
    /\ calls' = Append(calls, "save")
    /\ pc' = "solve"
    /\ UNCHANGED <<script, dims, errors, printed, exitStatus, x_value, flipped,
                   assigned, loadcases, edge, geometry, activation, solver>>

\* solve(True): the call returns when the analysis is over
ASolveWaits ==
    /\ script = "abutment" /\ pc = "solve"
    /\ calls' = calls \o <<"solve", "openAllResults">>
    /\ pc' = "done"
    /\ exitStatus' = 0
    /\ solver' = "finished"
    /\ UNCHANGED <<script, dims, errors, printed, x_value, flipped, assigned,
                   loadcases, edge, geometry, activation>>

\* lines 352-357: solve(False) returns without waiting; the script ends
ASolve ==
    /\ script = "abutment" /\ pc = "solve"
    /\ calls' = calls \o <<"solve", "openAllResults">>
    /\ pc' = "done"
    /\ exitStatus' = 0
    /\ solver' = "running"
    /\ UNCHANGED <<script, dims, errors, printed, x_value, flipped, assigned,
                   loadcases, edge, geometry, activation>>

\* The application finishes the analysis it was asked to start; the script
\* takes no part in it.
SolveCompletes ==
    /\ solver = "running"
    /\ solver' = "finished"
    /\ UNCHANGED <<script, dims, pc, errors, printed, calls, exitStatus, x_value,
                   flipped, assigned, loadcases, edge, geometry, activation>>

AssemblySteps ==
    {"new_project", "surfaces", "meshing", "supports", "materials", "geometric",
     "loading", "loadcase", "save", "solve"}

\* A call into the application raises: the try of line 126 catches it.
ARaise ==
    /\ script = "abutment" /\ pc \in AssemblySteps
    /\ calls' = Append(calls, "raised")
    /\ Caught("exception raised by the application")
    /\ UNCHANGED <<script, dims, errors, x_value, flipped, assigned, loadcases, edge, geometry, activation, solver>>

NextAbutment ==
    \/ AValidate \/ ACheckErrors \/ AConnect \/ ANewProject \/ AXValue
    \/ ACreateSurfaces \/ AMeshing \/ ASupports \/ AMaterials \/ AGeometric
    \/ ALoading \/ ALoadcase \/ ASave \/ ASolve \/ ARaise \/ SolveCompletes

Spec == InitAbutment /\ [][NextAbutment]_vars

---------------------------------------------------------------------------
(* Bridge abutment: validation claims *)

\* The calls that reach the external modelling application
ExternalCalls == {calls[i] : i \in 1..Len(calls)}

\* C1: whenever at least one validation rule is violated, the abutment run
\* ends with exit status 1 without having issued any call to the external
\* application: from validation the script can only go to the error report
\* and the exit.
C1_ViolationExitsBeforeAnyCall ==
    (script = "abutment" /\ \E i \in 1..Len(Checks(dims)) : Checks(dims)[i][1])
        => /\ calls = <<>>
           /\ pc \in {"validate", "check", "exited"}
           /\ exitStatus \in {-1, 1}
           /\ (pc = "exited" => exitStatus = 1)

C1_Witness ==
    /\ script = "abutment" /\ pc = "exited" /\ exitStatus = 1
    /\ errors # <<>> /\ calls = <<>>

\* The ranges written beside the dimension inputs (lines 25-34) and above
\* each check, one per dimension; "from x to y" includes both ends.
Documented(p) ==
    [d  |-> N(3) \preceq p.d /\ p.d \preceq N(100),
     t  |-> N(1) \preceq p.t /\ p.t \preceq N(100),
     s  |-> N(1) \preceq p.s /\ p.s \preceq N(10),
     w  |-> (((p.d \oplus p.t) \oplus p.s) \oplus N(2)) \preceq p.w /\ p.w \preceq N(100),
     h1 |-> N(1) \preceq p.h1 /\ p.h1 \preceq p.h2,
     h2 |-> (p.h1 \oplus N(2)) \preceq p.h2 /\ p.h2 \preceq N(100),
     h3 |-> N(2) \preceq p.h3 /\ p.h3 \preceq N(100),
     h4 |-> N(1) \preceq p.h4 /\ p.h4 \preceq (p.h3 \ominus N(1)),
     f  |-> N(1) \preceq p.f /\ p.f \prec (p.d \ominus N(2)),
     b  |-> N(1) \preceq p.b /\ p.b \preceq N(2)]

DimensionNames == {"d", "t", "s", "w", "h1", "h2", "h3", "h4", "f", "b"}

DocumentedViolations(p) == {n \in DimensionNames : ~Documented(p)[n]}

\* C2: every dimension set within the documented ranges and cross-parameter
\* constraints validates with an empty error list and goes on to model
\* creation.
C2_DocumentedDimsValidate ==
    (script = "abutment" /\ pc # "validate" /\ DocumentedViolations(dims) = {})
        => (errors = <<>> /\ pc # "exited")

\* C3: a dimension set that violates exactly one documented constraint gets
\* exactly one message, and the message names that constraint.
C3_OneViolationOneMessage ==
    (script = "abutment" /\ pc # "validate"
        /\ Cardinality(DocumentedViolations(dims)) = 1)
        => (Len(errors) = 1 /\ errors[1].param \in DocumentedViolations(dims))

DeclarationOrder == <<"d", "t", "s", "w", "h1", "h2", "h3", "h4", "f", "b">>

Position(n) == CHOOSE i \in 1..Len(DeclarationOrder) : DeclarationOrder[i] = n

Occurrences(seq, x) == Cardinality({i \in 1..Len(seq) : seq[i] = x})

\* C4: every check runs whatever the earlier ones found: the error list
\* holds one message for each failing check and no other, in the order
\* d, t, s, w, h1, h2, h3, h4, f, b; nothing is printed and the script has
\* not exited before all checks have run, and the report then prints every
\* collected message.
C4_AllChecksCollectedInOrder ==
    script = "abutment" =>
        /\ (pc = "validate" => (printed = <<>> /\ exitStatus = -1 /\ errors = <<>>))
        /\ (pc # "validate" =>
              LET cs == Checks(dims) IN
              /\ \A k \in 1..Len(cs) :
                    Occurrences(errors, cs[k][2]) = (IF cs[k][1] THEN 1 ELSE 0)
              /\ \A i \in 1..Len(errors) : \E k \in 1..Len(cs) : errors[i] = cs[k][2]
              /\ \A i, j \in 1..Len(errors) :
                    i < j => Position(errors[i].param) <= Position(errors[j].param))
        /\ (pc = "exited" =>
              \A i \in 1..Len(errors) :
                    printed[i + 1] = Line_(errors[i].rule, errors[i].param))

C4_Witness ==
    /\ script = "abutment" /\ pc = "exited"
    /\ Len(errors) >= 4
    /\ errors[1].param = "d" /\ errors[Len(errors)].param = "b"

---------------------------------------------------------------------------
(* x_value as a function of any dimensions, validated or not *)

\* Dimensions range over 0, 1/2, ..., MaxHalfSteps/2
MaxHalfSteps == 2

Lengths == {R(k, 2) : k \in 0..MaxHalfSteps}

DeriveDims ==
    {ShippedDims} \cup
    [d : Lengths, t : Lengths, s : Lengths, w : Lengths, h3 : Lengths,
     h4 : Lengths, h1 : Lengths, h2 : Lengths, f : {N(5)}, b : {R(3, 2)}]

InitDerive ==
    /\ script = "x_value"
    /\ dims \in DeriveDims
    /\ pc = "x_value"
    /\ errors = <<>>
    /\ printed = <<>>
    /\ calls = <<>>
    /\ exitStatus = -1
    /\ x_value = Unset
    /\ flipped = {}
    /\ assigned = <<>>
    /\ loadcases = <<>>
    /\ edge = Line(Pt(N(0), N(0)), Pt(N(0), N(0)))
    /\ geometry = NoGeometry
    /\ activation = <<>>
    /\ solver = "idle"

\* lines 156-158 applied to the dimensions
DXValue ==
    /\ script = "x_value" /\ pc = "x_value"
    /\ x_value' = XValue(dims)
    /\ pc' = "derived"
    /\ UNCHANGED <<script, dims, errors, printed, calls, exitStatus, flipped,
                   assigned, loadcases, edge, geometry, activation, solver>>

DeriveSpec == InitDerive /\ [][DXValue]_vars

Denominator(p) == ((p.h2 \oplus p.h3) \ominus p.h4) \ominus p.h1

\* C5: x_value is t + ((h2-h1)/(h2+h3-h4-h1)) * (w-d-s-t) when h2+h3-h4-h1
\* is not zero (stated without the division: (x_value - t) * (h2+h3-h4-h1)
\* = (h2-h1) * (w-d-s-t)), it is t when h2+h3-h4-h1 is zero, no division by
\* zero takes place, and the shipped dimensions give 10.
C5_XValueFormula ==
    (script = "x_value" /\ pc = "derived") =>
        /\ x_value # ZeroDivisionError
        /\ x_value[2] > 0
        /\ (Denominator(dims) # N(0) =>
              ((x_value \ominus dims.t) \odot Denominator(dims))
                 = ((dims.h2 \ominus dims.h1)
                      \odot (((dims.w \ominus dims.d) \ominus dims.s) \ominus dims.t)))
        /\ (Denominator(dims) = N(0) => x_value = dims.t)
        /\ (dims = ShippedDims => x_value = N(10))

\* the zero-denominator branch, taken with a slope that is not flat
C5_Witness ==
    /\ script = "x_value" /\ pc = "derived"
    /\ Denominator(dims) = N(0)
    /\ dims.h2 # dims.h1 /\ dims.w # dims.d
    /\ x_value = dims.t /\ dims.t # N(0)

---------------------------------------------------------------------------
(* Tunnel: dimensions and geometry (Tunnel.py) *)

\* lines 25-30
ShippedTunnelDims ==
    [radius |-> N(3), b |-> N(20), a |-> N(5), c |-> N(20), w |-> N(110), l |-> N(65)]

\* The values an editor of the script is modelled to try
TunnelDims ==
    {ShippedTunnelDims,
     [ShippedTunnelDims EXCEPT !.radius = N(2), !.b = N(21)],
     [ShippedTunnelDims EXCEPT !.w = N(120), !.l = N(70)],
     [ShippedTunnelDims EXCEPT !.a = N(4), !.c = N(10)]}

Arc(a, b) == [start |-> a, end |-> b, kind |-> "arc"]

\* The copy of a line made in place (lines 198-203): same end points, a
\* line of its own because the original was made unmergeable.
CopyOf(ln) == [start |-> ln.start, end |-> ln.end, kind |-> "lining"]

\* The start and end point the application reports for a line
Reported(ln, fl) == IF LineId(ln) \in fl THEN Swap(ln) ELSE ln

\* lines 63-97: the circle through the four cardinal points, split at them
\* into four arcs
CircleArcs(radius) ==
    LET top    == Pt(N(0), radius)
        bottom == Pt(N(0), RNeg(radius))
        right  == Pt(radius, N(0))
        left   == Pt(RNeg(radius), N(0))
    IN  {Arc(top, right), Arc(right, bottom), Arc(bottom, left), Arc(left, top)}

\* None of Python
None == [start |-> Pt(Unset, Unset), end |-> Pt(Unset, Unset), kind |-> "None"]

\* QuadrantKey, had it looked at the start point of a line only
QuadrantKeyStartOnly(ln, radius) ==
    LET is_top  == (SY(ln) = radius)
        is_left == (SX(ln) = RNeg(radius))
    IN  IF is_top
        THEN (IF is_left THEN "left_top" ELSE "right_top")
        ELSE (IF is_left THEN "left_bottom" ELSE "right_bottom")

\* lines 115-124: the key under which one line is filed
QuadrantKey(ln, radius) ==
    LET is_top  == (SY(ln) = radius \/ EY(ln) = radius)
        is_left == (SX(ln) = RNeg(radius) \/ EX(ln) = RNeg(radius))
    IN  IF is_top
        THEN (IF is_left THEN "left_top" ELSE "right_top")
        ELSE (IF is_left THEN "left_bottom" ELSE "right_bottom")

\* lines 103-126: lines is the list getObjects("Lines") returns, each line
\* with the end points the application reports; the dictionary keeps the
\* line objects.
RECURSIVE IdentifyLoop(_, _, _, _)
IdentifyLoop(lines, radius, fl, quadrants) ==
    IF lines = <<>> THEN quadrants
    ELSE IdentifyLoop(Tail(lines), radius, fl,
            [quadrants EXCEPT ![QuadrantKey(Reported(Head(lines), fl), radius)] = Head(lines)])

identify_quadrants(lines, radius, fl) ==
    IdentifyLoop(lines, radius, fl,
        [left_top |-> None, right_top |-> None, left_bottom |-> None,
         right_bottom |-> None])

\* list(quadrants.values()): the dictionary's values in insertion order
QuadrantValues(q) == <<q.left_top, q.right_top, q.left_bottom, q.right_bottom>>

\* Python's x / 2 on floats
Half(x) == Fl(x \oslash N(2))

\* A surface of the database: its name here and its boundary lines
Surface(name, lines) == [name |-> name, lines |-> lines]

\* lines 136-154: the top-left quadrant of the inner box
create_base_surface(radius, b, quadrants) ==
    Surface("base",
      << Line(Pt(N(0), radius), Pt(N(0), Half(b))),
         Line(Pt(N(0), Half(b)), Pt(Half(RNeg(b)), Half(b))),
         Line(Pt(Half(RNeg(b)), Half(b)), Pt(Half(RNeg(b)), N(0))),
         Line(Pt(Half(RNeg(b)), N(0)), Pt(RNeg(radius), N(0))),
         quadrants.left_top >>)

\* setScreenMirror(axis): "right" reflects in the vertical axis, "bottom"
\* in the horizontal axis
MirrorPt(axis, pt) ==
    IF axis = "right" THEN Pt(RNeg(PX(pt)), PY(pt)) ELSE Pt(PX(pt), RNeg(PY(pt)))

\* The line a mirrored copy lands on; a line already there is the same
\* object (same end points, same kind).
MirrorLine(axis, ln, existing) ==
    LET m == [start |-> MirrorPt(axis, ln.start), end |-> MirrorPt(axis, ln.end),
              kind |-> ln.kind]
    IN  IF \E e \in existing : LineId(e) = LineId(m)
        THEN CHOOSE e \in existing : LineId(e) = LineId(m)
        ELSE m

\* lines 162-178 for one axis: every surface of the database at the start of
\* the loop is copied through the mirror
MirrorAll(axis, surfaces, arcs) ==
    surfaces \o
    [i \in 1..Len(surfaces) |->
        Surface(surfaces[i].name,
                [j \in 1..Len(surfaces[i].lines) |->
                    MirrorLine(axis, surfaces[i].lines[j], arcs)])]

\* mirror_surfaces, had both passes mirrored in the same axis
mirror_surfacesSameAxis(surfaces, arcs) ==
    MirrorAll("right", MirrorAll("right", surfaces, arcs), arcs)

\* lines 158-181
mirror_surfaces(surfaces, arcs) ==
    MirrorAll("bottom", MirrorAll("right", surfaces, arcs), arcs)

\* lines 186-215: the copies of the quadrant lines, and the surface, which
\* line 212 builds from line_set (the original quadrant lines)
create_tunnel_surface(original_quadrants) ==
    LET line_set     == QuadrantValues(original_quadrants)
        copied_lines == [i \in 1..Len(line_set) |-> CopyOf(line_set[i])]
    IN  [tunnel_surface |-> Surface("tunnel", line_set), copied_lines |-> copied_lines]

\* Position of x in a list without repeats
IndexIn(seq, x) == CHOOSE i \in 1..Len(seq) : seq[i] = x

Polygon(xs, ys) == [i \in 1..Len(xs) |-> Pt(xs[i], ys[i])]

ZoneNames ==
    <<"top_left", "top_center", "top_right", "left", "right", "bottom_left",
      "bottom_center", "bottom_right", "outer">>

\* lines 224-288: the outline of each zone
create_refined_zones(b, a, c, w, l) ==
    LET hb  == Half(b)
        nhb == Half(RNeg(b))
        hw  == Half(w)
        nhw == Half(RNeg(w))
    IN
    [top_left |->
        Polygon(<<nhb, nhb, nhb -- a, nhb -- a>>,
                <<hb, hb ++ c, hb ++ c, hb>>),
     top_center |->
        Polygon(<<nhb, nhb, hb, hb, N(0)>>,
                <<hb, hb ++ c, hb ++ c, hb, hb>>),
     top_right |->
        Polygon(<<hb, hb, hb ++ a, hb ++ a>>,
                <<hb, hb ++ c, hb ++ c, hb>>),
     left |->
        Polygon(<<nhb, nhb, nhb -- a, nhb -- a, nhb>>,
                <<N(0), hb, hb, nhb, nhb>>),
     right |->
        Polygon(<<hb, hb, hb ++ a, hb ++ a, hb>>,
                <<N(0), hb, hb, nhb, nhb>>),
     bottom_left |->
        Polygon(<<nhb, nhb -- a, nhb -- a, nhb>>,
                <<nhb, nhb, nhb -- a, nhb -- a>>),
     bottom_center |->
        Polygon(<<N(0), nhb, nhb, hb, hb>>,
                <<nhb, nhb, nhb -- a, nhb -- a, nhb>>),
     bottom_right |->
        Polygon(<<hb, hb ++ a, hb ++ a, hb>>,
                <<nhb, nhb, nhb -- a, nhb -- a>>),
     outer |->
        Polygon(<<nhb -- a, nhw, nhw, hw, hw, hb ++ a,
                  hb ++ a, hb ++ a, hb ++ a, hb, nhb, nhb -- a,
                  nhb -- a, nhb -- a>>,
                <<hb ++ c, hb ++ c, (RNeg(l) ++ hb) ++ c,
                  (RNeg(l) ++ hb) ++ c, hb ++ c, hb ++ c,
                  hb, nhb, nhb -- a, nhb -- a, nhb -- a,
                  nhb -- a, nhb, hb>>)]

\* The lines created for the zones, in creation order
ZonesCreated(p) ==
    Concat([k \in 1..Len(ZoneNames) |->
              Outline(create_refined_zones(p.b, p.a, p.c, p.w, p.l)[ZoneNames[k]])])

\* addLOF("Lines").getObjects("Line") of a zone
ZoneLines(name, p, fl) ==
    SurfLines(create_refined_zones(p.b, p.a, p.c, p.w, p.l)[name], ZonesCreated(p), fl)

OuterLineIds(p) ==
    {LineId(ZoneLines("outer", p, {})[i]) : i \in 1..Len(ZoneLines("outer", p, {}))}

\* Outer zone, 4 m line mesh (lines 322-333)
OuterMesh(ln, p) ==
    LET bottom == (RNeg(p.l) ++ p.c) ++ Half(p.b)
    IN  IF \/ (SY(ln) = bottom /\ EY(ln) = bottom)
           \/ (SX(ln) = Half(RNeg(p.w)) /\ EX(ln) = Half(RNeg(p.w)))
           \/ (SX(ln) = Half(p.w) /\ EX(ln) = Half(p.w))
           \/ (SY(ln) = (Half(p.b) ++ p.c) /\ EY(ln) = (Half(p.b) ++ p.c))
        THEN <<"EL 4">>
        ELSE <<>>

\* Outer zone, supports (lines 457-473)
OuterSupport(ln, p) ==
    LET bottom == (RNeg(p.l) ++ p.c) ++ Half(p.b)
    IN  IF SY(ln) = bottom /\ EY(ln) = bottom THEN <<"FixXY">>
        ELSE IF SX(ln) = Half(RNeg(p.w)) /\ EX(ln) = Half(RNeg(p.w)) THEN <<"FixX">>
        ELSE IF SX(ln) = Half(p.w) /\ EX(ln) = Half(p.w) THEN <<"FixX">>
        ELSE <<>>

---------------------------------------------------------------------------
(* Tunnel: loadcases and staging (lines 533-588) *)

\* createLoadcase(name, "Analysis 1", 0, False): the new loadcase joins the
\* analysis at the place the application chooses
createLoadcase(lcs, name, at) ==
    SubSeq(lcs, 1, at - 1) \o <<Loadcase(name)>> \o SubSeq(lcs, at, Len(lcs))

Without(lcs, name) == SelectSeq(lcs, LAMBDA lc : lc.name # name)

IndexOf(lcs, name) == CHOOSE i \in 1..Len(lcs) : lcs[i].name = name

\* The loadcase is left where createLoadcase put it
moveAfterSkipped(lcs, name, target) == lcs

\* loadcase.moveAfter(target, True) of lines 556 and 576
moveAfter(lcs, name, target) ==
    LET rest == Without(lcs, name)
        k    == IndexOf(rest, target)
    IN  SubSeq(rest, 1, k) \o <<lcs[IndexOf(lcs, name)]>> \o SubSeq(rest, k + 1, Len(rest))

\* An object of the database as the target of an assignment
SurfaceId(sf) == [ends |-> {}, kind |-> sf.name]

\* One record of `activation` per object an Activate or Deactivate attribute
\* is assigned to
Staging(loadset, attr, kind, ids) ==
    [i \in 1..Len(ids) |->
        [loadset |-> loadset, attr |-> attr, kind |-> kind, object |-> ids[i]]]

LineIds(lines) == [i \in 1..Len(lines) |-> LineId(lines[i])]

\* lines 547-548: what Deact1 is assigned to
Deact1Targets(g) == LineIds(g.lining_lines) \o LineIds(QuadrantValues(g.quadrants))

\* Act1 assigned to the lining lines alone (line 568 left out)
Act1LiningOnly(g) == LineIds(g.lining_lines)

\* lines 567-568: what Act1 is assigned to
Act1Targets(g) == LineIds(g.lining_lines) \o LineIds(QuadrantValues(g.quadrants))

\* line 584: what Deact2 is assigned to
Deact2Targets(g) == <<SurfaceId(g.tunnel_surface)>>

---------------------------------------------------------------------------
(* Tunnel: the script, top to bottom.  Nothing catches an exception: the   *)
(* interpreter prints the traceback and the process ends with status 1.    *)

Uncaught(message) ==
    /\ printed' = Append(printed, Line_("Traceback (most recent call last)", message))
    /\ pc' = "crashed"
    /\ exitStatus' = 1

BaseNames == <<"base1", "base2", "base3", "base4">>

\* getObjects("Line") of a surface, each line as the application reports it
ReportedLines(sf, fl) == [i \in 1..Len(sf.lines) |-> Reported(sf.lines[i], fl)]

\* attr.assignTo(lines, 1): the one attribute to every line of the list
AllOf(lines, attr) == [i \in 1..Len(lines) |-> <<attr>>]

\* The orders in which getObjects can list a set of lines
Listings(lines) ==
    {order \in [1..Cardinality(lines) -> lines] :
        \A i, j \in 1..Cardinality(lines) : order[i] = order[j] => i = j}

InitTunnel ==
    /\ script = "tunnel"
    /\ dims \in TunnelDims
    /\ pc = "connect"
    /\ errors = <<>>
    /\ printed = <<>>
    /\ calls = <<>>
    /\ exitStatus = -1
    /\ x_value = Unset
    /\ flipped = {}
    /\ assigned = <<>>
    /\ loadcases = <<>>
    /\ edge = Line(Pt(N(0), N(0)), Pt(N(0), N(0)))
    /\ geometry = NoGeometry
    /\ activation = <<>>
    /\ solver = "idle"

\* lines 38-42
TConnect ==
    /\ script = "tunnel" /\ pc = "connect"
    /\ \E exists \in BOOLEAN, modified \in BOOLEAN :
         /\ calls' = calls \o <<"get_lusas_modeller", "existsDatabase">>
                           \o (IF exists THEN <<"isModified">> ELSE <<>>)
         /\ IF exists /\ modified
            THEN Uncaught("Please save or close the current model before running.")
            ELSE /\ pc' = "new_project"
                 /\ UNCHANGED <<printed, exitStatus>>
    /\ UNCHANGED <<script, dims, errors, x_value, flipped, assigned, loadcases,
                   edge, geometry, activation, solver>>

\* lines 45-54: a new project has its first loadcase
TNewProject ==
    /\ script = "tunnel" /\ pc = "new_project"
    /\ calls' = calls \o <<"newProject", "getDatabase", "setVisible", "enableUI",
                           "setAnalysisCategory", "setVerticalDir", "setModelUnits",
                           "Helpers.initialise">>
    /\ loadcases' = <<Loadcase("Loadcase 1")>>
    /\ pc' = "circle"
    /\ UNCHANGED <<script, dims, errors, printed, exitStatus, x_value, flipped,
                   assigned, edge, geometry, activation, solver>>

ArcIds(radius) == {LineId(arc) : arc \in CircleArcs(radius)}

\* line 483; the direction of each arc of the split circle is the
\* application's: orientations is the set of outcomes considered
CreateTunnelCircle(orientations) ==
    /\ script = "tunnel" /\ pc = "circle"
    /\ calls' = calls \o <<"createPoint", "createLine", "splitLine">>
    /\ flipped' \in orientations
    /\ pc' = "quadrants"
    /\ UNCHANGED <<script, dims, errors, printed, exitStatus, x_value, assigned,
                   loadcases, edge, geometry, activation, solver>>

TCreateTunnelCircle == CreateTunnelCircle(Orientations(ArcIds(dims.radius)))

\* line 484; the order of the list of lines is the application's
TIdentifyQuadrants ==
    /\ script = "tunnel" /\ pc = "quadrants"
    /\ \E lines \in Listings(CircleArcs(dims.radius)) :
         geometry' = [geometry EXCEPT
                        !.quadrants = identify_quadrants(lines, dims.radius, flipped)]
    /\ calls' = Append(calls, "getObjects")
    /\ pc' = "base_surface"
    /\ UNCHANGED <<script, dims, errors, printed, exitStatus, x_value, flipped,
                   assigned, loadcases, edge, activation, solver>>

\* line 489: a surface cannot be made from a list that holds None
TCreateBaseSurface ==
    /\ script = "tunnel" /\ pc = "base_surface"
    /\ calls' = calls \o <<"create_line_by_coordinates", "create_line_by_coordinates",
                           "create_line_by_coordinates", "create_line_by_coordinates",
                           "createSurface">>
    /\ IF geometry.quadrants.left_top = None
       THEN /\ Uncaught("createSurface")
            /\ UNCHANGED geometry
       ELSE /\ geometry' = [geometry EXCEPT
                !.surfaces = <<create_base_surface(dims.radius, dims.b, geometry.quadrants)>>]
            /\ pc' = "mirror"
            /\ UNCHANGED <<printed, exitStatus>>
    /\ UNCHANGED <<script, dims, errors, x_value, flipped, assigned, loadcases,
                   edge, activation, solver>>

\* line 490
TMirrorSurfaces ==
    /\ script = "tunnel" /\ pc = "mirror"
    /\ geometry' = [geometry EXCEPT
            !.surfaces = mirror_surfaces(geometry.surfaces, CircleArcs(dims.radius))]
    /\ calls' = calls \o <<"copy", "copy", "copy">>
    /\ pc' = "tunnel_surface"
    /\ UNCHANGED <<script, dims, errors, printed, exitStatus, x_value, flipped,
                   assigned, loadcases, edge, activation, solver>>

\* line 495
TCreateTunnelSurface ==
    /\ script = "tunnel" /\ pc = "tunnel_surface"
    /\ calls' = calls \o <<"makeUnmergeable", "makeUnmergeable", "copy", "createSurface">>
    /\ IF \E i \in 1..4 : QuadrantValues(geometry.quadrants)[i] = None
       THEN /\ Uncaught("add")
            /\ UNCHANGED geometry
       ELSE /\ LET made == create_tunnel_surface(geometry.quadrants)
               IN  geometry' = [geometry EXCEPT
                       !.tunnel_surface = made.tunnel_surface,
                       !.lining_lines = made.copied_lines,
                       !.surfaces = Append(geometry.surfaces, made.tunnel_surface)]
            /\ pc' = "zones"
            /\ UNCHANGED <<printed, exitStatus>>
    /\ UNCHANGED <<script, dims, errors, x_value, flipped, assigned, loadcases,
                   edge, activation, solver>>

\* line 500; the direction of each line of the outer zone is the application's
TCreateRefinedZones ==
    /\ script = "tunnel" /\ pc = "zones"
    /\ LET zones == [k \in 1..Len(ZoneNames) |->
                        Surface(ZoneNames[k], ZoneLines(ZoneNames[k], dims, {}))]
       IN  geometry' = [geometry EXCEPT
               !.refined_zones = [name \in {ZoneNames[k] : k \in 1..Len(ZoneNames)} |->
                                     zones[IndexIn(ZoneNames, name)]],
               !.surfaces = geometry.surfaces \o zones]
    /\ \E fl \in Orientations(OuterLineIds(dims)) : flipped' = flipped \cup fl
    /\ calls' = calls \o [k \in 1..Len(ZoneNames) |-> "create_surface_by_coordinates"]
    /\ pc' = "mesh"
    /\ UNCHANGED <<script, dims, errors, printed, exitStatus, x_value, assigned,
                   loadcases, edge, activation, solver>>

\* lines 505-506
TApplyMeshAttributes ==
    /\ script = "tunnel" /\ pc = "mesh"
    /\ LET base_surfaces == SubSeq(geometry.surfaces, 1, 4)
           fine  == SelectSeq(ZoneNames, LAMBDA name : name # "outer")
           zone(name)  == ReportedLines(geometry.refined_zones[name], flipped)
           outerLines  == zone("outer")
           tunnel_lines == ReportedLines(geometry.tunnel_surface, flipped)
           base(i) == ReportedLines(base_surfaces[i], flipped)
       IN  assigned' = assigned
              \o Concat([k \in 1..Len(fine) |->
                    Pass("line mesh", fine[k], zone(fine[k]), AllOf(zone(fine[k]), "EL 2"))])
              \o Pass("line mesh", "outer", outerLines,
                      [i \in 1..Len(outerLines) |-> OuterMesh(outerLines[i], dims)])
              \o Pass("line mesh", "tunnel", tunnel_lines, AllOf(tunnel_lines, "EL 1"))
              \o Concat([i \in 1..Len(base_surfaces) |->
                    Pass("line mesh", BaseNames[i], base(i), AllOf(base(i), "EL 1"))])
    /\ calls' = calls \o <<"getObjects", "createMeshSurface", "assignTo", "updateMesh",
                           "createMeshLine", "assignTo", "createMeshLine", "assignTo",
                           "createMeshLine", "assignTo", "updateMesh">>
    /\ pc' = "joints"
    /\ UNCHANGED <<script, dims, errors, printed, exitStatus, x_value, flipped,
                   loadcases, edge, geometry, activation, solver>>

\* line 511
TCreateInterfaceJoints ==
    /\ script = "tunnel" /\ pc = "joints"
    /\ LET quadrant_lines == QuadrantValues(geometry.quadrants)
           tunnel_lines   == geometry.lining_lines
       IN  assigned' = assigned
              \o Pass("line mesh", "quadrant_lines", quadrant_lines,
                      AllOf(quadrant_lines, "Joint"))
              \o Pass("material", "quadrant_lines", quadrant_lines,
                      AllOf(quadrant_lines, "soil-stru joint"))
              \o Pass("geometric", "lining_lines", tunnel_lines,
                      AllOf(tunnel_lines, "Lining"))
    /\ calls' = calls \o <<"createMeshLine", "createSpringJointMaterial", "assignTo",
                           "assignTo", "updateMesh", "createGeometricLine", "assignTo">>
    /\ pc' = "materials"
    /\ UNCHANGED <<script, dims, errors, printed, exitStatus, x_value, flipped,
                   loadcases, edge, geometry, activation, solver>>

\* lines 516-517
TMaterials ==
    /\ script = "tunnel" /\ pc = "materials"
    /\ LET tunnel_lines == geometry.lining_lines
       IN  assigned' = assigned
              \o Pass("line mesh", "lining_lines", tunnel_lines,
                      AllOf(tunnel_lines, "Lining"))
              \o Pass("material", "lining_lines", tunnel_lines,
                      AllOf(tunnel_lines, "Concrete"))
    /\ calls' = calls \o <<"createIsotropicMaterial", "getObjects", "assignTo",
                           "createMeshLine", "assignTo", "createIsotropicMaterial",
                           "assignTo">>
    /\ pc' = "supports"
    /\ UNCHANGED <<script, dims, errors, printed, exitStatus, x_value, flipped,
                   loadcases, edge, geometry, activation, solver>>

\* line 522
TApplySupports ==
    /\ script = "tunnel" /\ pc = "supports"
    /\ LET outerLines == ReportedLines(geometry.refined_zones["outer"], flipped)
       IN  assigned' = assigned
              \o Pass("support", "outer", outerLines,
                      [i \in 1..Len(outerLines) |-> OuterSupport(outerLines[i], dims)])
    /\ calls' = calls \o <<"createSupportStructural", "createSupportStructural", "assignTo">>
    /\ pc' = "loadcase1"
    /\ UNCHANGED <<script, dims, errors, printed, exitStatus, x_value, flipped,
                   loadcases, edge, geometry, activation, solver>>

\* lines 533-548
TLoadcase1 ==
    /\ script = "tunnel" /\ pc = "loadcase1"
    /\ loadcases' = Configure(loadcases, "Loadcase 1")
    /\ activation' = activation
          \o Staging("Loadcase 1", "Deact1", "Deactivate", Deact1Targets(geometry))
    /\ calls' = calls \o <<"getLoadset", "addGravity", "setTransientControl",
                           "createDeactivate", "assignTo", "assignTo">>
    /\ pc' = "loadcase2"
    /\ UNCHANGED <<script, dims, errors, printed, exitStatus, x_value, flipped,
                   assigned, edge, geometry, solver>>

\* lines 550-568
TLoadcase2 ==
    /\ script = "tunnel" /\ pc = "loadcase2"
    /\ \E at \in 1..(Len(loadcases) + 1) :
         loadcases' = Configure(moveAfter(createLoadcase(loadcases, "Loadcase 2", at),
                                          "Loadcase 2", "Loadcase 1"),
                                "Loadcase 2")
    /\ activation' = activation
          \o Staging("Loadcase 2", "Act1", "Activate", Act1Targets(geometry))
    /\ calls' = calls \o <<"createLoadcase", "addGravity", "getLoadset", "moveAfter",
                           "setTransientControl", "createActivate", "assignTo", "assignTo">>
    /\ pc' = "loadcase3"
    /\ UNCHANGED <<script, dims, errors, printed, exitStatus, x_value, flipped,
                   assigned, edge, geometry, solver>>

\* lines 570-588
TLoadcase3 ==
    /\ script = "tunnel" /\ pc = "loadcase3"
    /\ \E at \in 1..(Len(loadcases) + 1) :
         loadcases' = Configure(moveAfter(createLoadcase(loadcases, "Loadcase 3", at),
                                          "Loadcase 3", "Loadcase 2"),
                                "Loadcase 3")
    /\ activation' = activation
          \o Staging("Loadcase 3", "Deact2", "Deactivate", Deact2Targets(geometry))
    /\ calls' = calls \o <<"createLoadcase", "addGravity", "getLoadset", "moveAfter",
                           "createDeactivate", "assignTo", "setTransientControl">>
    /\ pc' = "save"
    /\ UNCHANGED <<script, dims, errors, printed, exitStatus, x_value, flipped,
                   assigned, edge, geometry, solver>>

\* line 601
TSave ==
    /\ script = "tunnel" /\ pc = "save"
    /\ calls' = Append(calls, "save")
    /\ pc' = "solve"
    /\ UNCHANGED <<script, dims, errors, printed, exitStatus, x_value, flipped,
                   assigned, loadcases, edge, geometry, activation, solver>>

\* lines 605-606 and the end of the file
TSolve ==
    /\ script = "tunnel" /\ pc = "solve"
    /\ calls' = calls \o <<"solve", "openAllResults">>
    /\ pc' = "done"
    /\ exitStatus' = 0
    /\ solver' = "running"
    /\ UNCHANGED <<script, dims, errors, printed, x_value, flipped, assigned,
                   loadcases, edge, geometry, activation>>

TunnelSteps ==
    {"new_project", "circle", "quadrants", "base_surface", "mirror", "tunnel_surface",
     "zones", "mesh", "joints", "materials", "supports", "loadcase1", "loadcase2",
     "loadcase3", "save", "solve"}

\* A call into the application raises
TRaise ==
    /\ script = "tunnel" /\ pc \in TunnelSteps
    /\ calls' = Append(calls, "raised")
    /\ Uncaught("exception raised by the application")
    /\ UNCHANGED <<script, dims, errors, x_value, flipped, assigned, loadcases,
                   edge, geometry, activation, solver>>

NextTunnel ==
    \/ TConnect \/ TNewProject \/ TCreateTunnelCircle \/ TIdentifyQuadrants
    \/ TCreateBaseSurface \/ TMirrorSurfaces \/ TCreateTunnelSurface
    \/ TCreateRefinedZones \/ TApplyMeshAttributes \/ TCreateInterfaceJoints
    \/ TMaterials \/ TApplySupports \/ TLoadcase1 \/ TLoadcase2 \/ TLoadcase3
    \/ TSave \/ TSolve \/ TRaise \/ SolveCompletes

TunnelSpec == InitTunnel /\ [][NextTunnel]_vars

---------------------------------------------------------------------------
(* The edge classifiers as functions of one edge: any edge between two     *)
(* points of the landmark grid, in the direction given and in the other    *)

ClassifyAbutmentDims ==
    {ShippedDims, [ShippedDims EXCEPT !.f = R(3, 2)], [ShippedDims EXCEPT !.w = N(12)]}

ClassifyTunnelDims ==
    TunnelDims \cup {[ShippedTunnelDims EXCEPT !.w = N(0)]}

AbutmentGrid(p) ==
    {Pt(x, y) : x \in {N(0), p.t, (p.w \ominus p.d) \ominus p.b, p.w \ominus p.d,
                       (p.w \ominus p.d) \oplus p.b, (p.w \ominus p.d) \oplus p.f, p.w},
                y \in {N(0), p.h1, p.h2, (p.h2 \oplus p.h3) \ominus p.h4, p.h2 \oplus p.h3}}

TunnelGrid(p) ==
    {Pt(x, y) : x \in {Half(RNeg(p.w)), Half(RNeg(p.b)) -- p.a, RNeg(p.radius),
                       N(0), p.radius, Half(p.b) ++ p.a, Half(p.w)},
                y \in {(RNeg(p.l) ++ p.c) ++ Half(p.b), Half(RNeg(p.b)) -- p.a,
                       RNeg(p.radius), N(0), p.radius, Half(p.b) ++ p.c}}

InitClassify ==
    /\ \/ /\ script = "classify_abutment"
          /\ dims \in ClassifyAbutmentDims
          /\ \E s \in AbutmentGrid(dims), e \in AbutmentGrid(dims) : edge = Line(s, e)
       \/ /\ script = "classify_tunnel"
          /\ dims \in ClassifyTunnelDims
          /\ \E s \in TunnelGrid(dims), e \in TunnelGrid(dims) : edge = Line(s, e)
    /\ pc = "classify"
    /\ errors = <<>>
    /\ printed = <<>>
    /\ calls = <<>>
    /\ exitStatus = -1
    /\ x_value = Unset
    /\ flipped = {}
    /\ assigned = <<>>
    /\ loadcases = <<>>
    /\ geometry = NoGeometry
    /\ activation = <<>>
    /\ solver = "idle"

\* One classifier applied to the edge as given and to the edge end-first
BothWays(stage, ln, given, swapped) ==
    Pass(stage, "reported", <<ln>>, <<given>>)
    \o Pass(stage, "swapped", <<Swap(ln)>>, <<swapped>>)

\* The dictionary key of identify_quadrants as a bucket
QuadrantBucket(ln, p) == <<QuadrantKey(ln, p.radius)>>

CAbutment ==
    /\ script = "classify_abutment" /\ pc = "classify"
    /\ assigned' = BothWays("LineMesh2", edge, LineMesh2(edge, dims), LineMesh2(Swap(edge), dims))
                \o BothWays("LineMesh3", edge, LineMesh3(edge, dims), LineMesh3(Swap(edge), dims))
                \o BothWays("Support1", edge, Support1(edge, dims), Support1(Swap(edge), dims))
                \o BothWays("Support3", edge, Support3(edge, dims), Support3(Swap(edge), dims))
                \o BothWays("Concrete2", edge, Concrete2(edge, dims), Concrete2(Swap(edge), dims))
                \o BothWays("Concrete3", edge, Concrete3(edge, dims), Concrete3(Swap(edge), dims))
                \o BothWays("BeamGeometry2", edge, BeamGeometry2(edge, dims), BeamGeometry2(Swap(edge), dims))
                \o BothWays("BeamGeometry3", edge, BeamGeometry3(edge, dims), BeamGeometry3(Swap(edge), dims))
    /\ pc' = "classified"
    /\ UNCHANGED <<script, dims, errors, printed, calls, exitStatus, x_value,
                   flipped, loadcases, edge, geometry, activation, solver>>

CTunnel ==
    /\ script = "classify_tunnel" /\ pc = "classify"
    /\ assigned' = BothWays("QuadrantKey", edge, QuadrantBucket(edge, dims), QuadrantBucket(Swap(edge), dims))
                \o BothWays("OuterMesh", edge, OuterMesh(edge, dims), OuterMesh(Swap(edge), dims))
                \o BothWays("OuterSupport", edge, OuterSupport(edge, dims), OuterSupport(Swap(edge), dims))
    /\ pc' = "classified"
    /\ UNCHANGED <<script, dims, errors, printed, calls, exitStatus, x_value,
                   flipped, loadcases, edge, geometry, activation, solver>>

NextClassify == CAbutment \/ CTunnel

ClassifySpec == InitClassify /\ [][NextClassify]_vars

---------------------------------------------------------------------------
(* Classification claims *)

Classifiers ==
    {"LineMesh2", "LineMesh3", "Support1", "Support3", "Concrete2", "Concrete3",
     "BeamGeometry2", "BeamGeometry3", "QuadrantKey", "OuterMesh", "OuterSupport"}

\* The attributes assigned in one pass, in call order
AttrsOf(records) == [i \in 1..Len(records) |-> records[i].attr]

Bucket(stage, surface) ==
    AttrsOf(SelectSeq(assigned, LAMBDA r : r.stage = stage /\ r.surface = surface))

\* C6: in every edge classifier of both scripts, the bucket an edge is put
\* in is the same whether the edge is given start-first or end-first.
C6_SwapKeepsBucket ==
    pc = "classified" =>
        \A stage \in Classifiers : Bucket(stage, "reported") = Bucket(stage, "swapped")

\* A wall-foot edge of the abutment given from the wall line to the foot
\* (the direction the second test of the classifier is there for), and an
\* arc of the tunnel circle given from the left point to the top
C6_Witness ==
    /\ pc = "classified"
    /\ \/ /\ script = "classify_abutment"
          /\ SX(edge) = (dims.w \ominus dims.d)
          /\ EX(edge) = ((dims.w \ominus dims.d) \ominus dims.b)
          /\ Bucket("LineMesh2", "reported") = <<"wall">>
          /\ Bucket("LineMesh2", "swapped") = <<"wall">>
          /\ Bucket("Concrete2", "swapped") = <<"Concrete">>
       \/ /\ script = "classify_tunnel"
          /\ edge.start = Pt(RNeg(dims.radius), N(0))
          /\ edge.end = Pt(N(0), dims.radius)
          /\ Bucket("QuadrantKey", "swapped") = <<"left_top">>

\* C8: the support classifiers give an edge the support of the first rule
\* it satisfies in the order base/bottom, left side, right side, and nothing
\* else: FixXY alone when the base rule holds, whatever else holds.
C8_FirstMatchingRuleDecides ==
    pc = "classified" =>
        LET bottom == (RNeg(dims.l) ++ dims.c) ++ Half(dims.b)
            base   == IF script = "classify_abutment"
                      THEN SY(edge) = N(0) /\ EY(edge) = N(0)
                      ELSE SY(edge) = bottom /\ EY(edge) = bottom
            left   == IF script = "classify_abutment"
                      THEN SX(edge) = N(0) /\ EX(edge) = N(0)
                      ELSE SX(edge) = Half(RNeg(dims.w)) /\ EX(edge) = Half(RNeg(dims.w))
            right  == IF script = "classify_abutment"
                      THEN SX(edge) = dims.w /\ EX(edge) = dims.w
                      ELSE SX(edge) = Half(dims.w) /\ EX(edge) = Half(dims.w)
            given  == IF script = "classify_abutment"
                      THEN Bucket("Support1", "reported")
                      ELSE Bucket("OuterSupport", "reported")
        IN  given = IF base THEN <<"FixXY">>
                    ELSE IF left \/ right THEN <<"FixX">>
                    ELSE <<>>

\* An edge on the base and on the left side at once, in either script
C8_Witness ==
    /\ pc = "classified"
    /\ \/ /\ script = "classify_abutment"
          /\ edge = Line(Pt(N(0), N(0)), Pt(N(0), N(0)))
          /\ Bucket("Support1", "reported") = <<"FixXY">>
       \/ /\ script = "classify_tunnel"
          /\ PX(edge.start) = Half(RNeg(dims.w)) /\ edge.end = edge.start
          /\ PY(edge.start) = (RNeg(dims.l) ++ dims.c) ++ Half(dims.b)
          /\ Bucket("OuterSupport", "reported") = <<"FixXY">>

---------------------------------------------------------------------------
(* Both scripts: a run of the one or of the other *)

InitScripts == InitAbutment \/ InitTunnel

NextScripts == NextAbutment \/ NextTunnel

ScriptsSpec == InitScripts /\ [][NextScripts]_vars

Log == 1..Len(assigned)

\* C7 as claimed: within one attribute stage no edge is put in two different
\* buckets, whichever surfaces' edge lists it is classified with.
C7_OneBucketPerStage ==
    Cardinality({<<assigned[i].stage, assigned[i].line>> : i \in Log})
        = Cardinality({<<assigned[i].stage, assigned[i].line, assigned[i].attr>> : i \in Log})

IdsOf(lines) == {LineId(lines[i]) : i \in 1..Len(lines)}

MeshedIn(surface) ==
    {assigned[i].line : i \in {k \in Log : /\ assigned[k].stage = "line mesh"
                                           /\ assigned[k].surface = surface}}

\* C7 amended: each classification pass over one surface's edge list puts
\* every edge of that list in exactly one bucket: at most one attribute is
\* assigned to an edge in a pass (none is the free bucket), and the line
\* mesh passes that have a default leave no edge of their list without a
\* mesh.  An edge shared by two classified surfaces is classified once in
\* each surface's pass.
C7_OneBucketPerPass ==
    /\ Cardinality({<<assigned[i].stage, assigned[i].surface, assigned[i].line>> : i \in Log})
          = Len(assigned)
    /\ (script = "abutment" /\ pc \in {"supports", "materials", "geometric", "loading",
                                       "loadcase", "save", "solve", "done"})
          => /\ IdsOf(surfLines1(dims, x_value, flipped)) = MeshedIn("surface1")
             /\ IdsOf(surfLines2(dims, x_value, flipped)) = MeshedIn("surface2")
             /\ IdsOf(surfLines3(dims, x_value, flipped)) = MeshedIn("surface3")
    /\ (script = "tunnel" /\ pc \in {"joints", "materials", "supports", "loadcase1",
                                     "loadcase2", "loadcase3", "save", "solve", "done"})
          => /\ \A name \in {ZoneNames[k] : k \in 1..Len(ZoneNames)} \ {"outer"} :
                    IdsOf(geometry.refined_zones[name].lines) = MeshedIn(name)
             /\ MeshedIn("outer") \subseteq IdsOf(geometry.refined_zones["outer"].lines)
             /\ IdsOf(geometry.tunnel_surface.lines) = MeshedIn("tunnel")
             /\ \A i \in 1..4 : IdsOf(geometry.surfaces[i].lines) = MeshedIn(BaseNames[i])

\* The wall face between surfaces 2 and 3 of the abutment has been through
\* both line mesh passes, and a boundary between a refined zone and a base
\* surface of the tunnel through both of its passes.
C7_Witness ==
    \/ /\ script = "abutment" /\ pc = "done"
       /\ \E i, j \in Log :
            /\ assigned[i].stage = "line mesh" /\ assigned[j].stage = "line mesh"
            /\ assigned[i].line = assigned[j].line
            /\ assigned[i].surface = "surface2" /\ assigned[j].surface = "surface3"
            /\ assigned[i].attr = "EL 1" /\ assigned[j].attr = "wall"
    \/ /\ script = "tunnel" /\ pc = "done"
       /\ \E i, j \in Log :
            /\ assigned[i].stage = "line mesh" /\ assigned[j].stage = "line mesh"
            /\ assigned[i].line = assigned[j].line
            /\ assigned[i].surface = "top_center" /\ assigned[j].surface = "base1"

---------------------------------------------------------------------------
(* Tunnel: staging claims *)

Configured(name) == [name |-> name, configured |-> 1]

\* C9: whatever the dimensions, the run sets up Loadcase 1, then Loadcase 2
\* right after it, then Loadcase 3 right after that; each is configured
\* once, and a complete run ends with exactly these three in this order.
C9_ThreeLoadcasesInOrder ==
    script = "tunnel" =>
        /\ pc \in {"connect", "new_project"} => loadcases = <<>>
        /\ pc \in {"circle", "quadrants", "base_surface", "mirror", "tunnel_surface",
                   "zones", "mesh", "joints", "materials", "supports", "loadcase1"}
              => loadcases = <<Loadcase("Loadcase 1")>>
        /\ pc = "loadcase2" => loadcases = <<Configured("Loadcase 1")>>
        /\ pc = "loadcase3"
              => loadcases = <<Configured("Loadcase 1"), Configured("Loadcase 2")>>
        /\ pc \in {"save", "solve", "done"}
              => loadcases = <<Configured("Loadcase 1"), Configured("Loadcase 2"),
                               Configured("Loadcase 3")>>

C9_Witness ==
    /\ script = "tunnel" /\ pc = "done" /\ dims # ShippedTunnelDims
    /\ Len(loadcases) = 3 /\ loadcases[3] = Configured("Loadcase 3")

Staged(loadset, kind) ==
    {activation[i].object :
        i \in {k \in 1..Len(activation) : /\ activation[k].loadset = loadset
                                          /\ activation[k].kind = kind}}

LiningAndJoints ==
    IdsOf(geometry.lining_lines) \cup IdsOf(QuadrantValues(geometry.quadrants))

\* C10: the lines deactivated in Loadcase 1 are the four lining lines and
\* the four quadrant lines, the lines activated in Loadcase 2 are the same
\* eight, none of them is activated and deactivated in one loadcase, and in
\* Loadcase 3 the tunnel surface alone is deactivated.
C10_StagedActivation ==
    (script = "tunnel" /\ pc \in {"save", "solve", "done"}) =>
        /\ Cardinality(LiningAndJoints) = 8
        /\ Staged("Loadcase 1", "Deactivate") = LiningAndJoints
        /\ Staged("Loadcase 2", "Activate") = LiningAndJoints
        /\ Staged("Loadcase 1", "Activate") = {}
        /\ Staged("Loadcase 2", "Deactivate") = {}
        /\ Staged("Loadcase 3", "Deactivate") = {SurfaceId(geometry.tunnel_surface)}
        /\ Staged("Loadcase 3", "Activate") = {}
        /\ Staged("Loadcase 3", "Deactivate") \cap LiningAndJoints = {}
        /\ \A i \in 1..Len(activation) :
              activation[i].attr = (IF activation[i].loadset = "Loadcase 1" THEN "Deact1"
                                    ELSE IF activation[i].loadset = "Loadcase 2" THEN "Act1"
                                    ELSE "Deact2")

C10_Witness ==
    /\ script = "tunnel" /\ pc = "done"
    /\ Len(activation) = 17
    /\ Cardinality(Staged("Loadcase 2", "Activate")) = 8

---------------------------------------------------------------------------
(* Both scripts: the unsaved-model check, failures, save and solve *)

\* The run has refused to go on because a modified model was open
Refused ==
    \E i \in 1..Len(printed) :
        printed[i].about \in
            {"Save or close the current model before running this code",
             "Please save or close the current model before running."}

\* C11: the open project is asked about once, before newProject; when the
\* run refuses, nothing but the question has been put to the application:
\* no newProject and no geometry, attribute, loadcase, save or solve.
C11_UnsavedModelRefused ==
    /\ Occurrences(calls, "existsDatabase") <= 1
    /\ Occurrences(calls, "isModified") <= 1
    /\ \A i \in 1..Len(calls) :
          calls[i] = "newProject" => \E j \in 1..(i - 1) : calls[j] = "existsDatabase"
    /\ Refused =>
          /\ calls = <<"get_lusas_modeller", "existsDatabase", "isModified">>
          /\ pc \in {"failed", "crashed"}
          /\ assigned = <<>> /\ loadcases = <<>> /\ activation = <<>>
          /\ geometry = NoGeometry /\ solver = "idle"

C11_Witness ==
    /\ Refused
    /\ pc \in {"failed", "crashed"}
    /\ Occurrences(calls, "isModified") = 1

\* The application has raised out of one of its calls
Raised == \E i \in 1..Len(calls) : calls[i] = "raised"

\* C12 as claimed: in both scripts the failure is caught by the script, which
\* logs the message, issues no further call and ends.
C12_FailureIsCaught ==
    Raised =>
        /\ calls[Len(calls)] = "raised"
        /\ pc = "failed"
        /\ exitStatus = 0
        /\ \E i \in 1..Len(printed) :
              /\ printed[i].text = "Error creating model"
              /\ printed[i].about = "exception raised by the application"

\* C12 amended: a failure raised by a call of the application ends the
\* pipeline in both scripts.  The failing call is the last call, the message
\* is reported, and what was built in the application or assigned before it
\* stays as it was.  The abutment script catches the failure, prints the
\* message itself and ends normally; the tunnel script has no handler, the
\* interpreter reports the exception and the process ends with status 1.
C12_FailureAborts ==
    [][/\ (Raised' /\ ~Raised) =>
            /\ calls' = Append(calls, "raised")
            /\ \E i \in 1..Len(printed') :
                  printed'[i].about = "exception raised by the application"
            /\ pc' = (IF script = "abutment" THEN "failed" ELSE "crashed")
            /\ exitStatus' = (IF script = "abutment" THEN 0 ELSE 1)
            /\ assigned' = assigned /\ geometry' = geometry
            /\ loadcases' = loadcases /\ activation' = activation
            /\ solver' = solver
       /\ Raised => UNCHANGED vars]_vars

\* A failure after lines have been given attributes: the assignments stay
C12_Witness ==
    /\ Raised
    /\ assigned # <<>>
    /\ pc \in {"failed", "crashed"}

\* C13: the project is saved once, before the one solve request; the
\* request returns while the analysis is still running and the script goes
\* straight on to its end; a run that reaches its end has saved once and
\* asked for the solve once.
C13_SaveOnceThenSolve ==
    [][/\ Occurrences(calls', "save") > Occurrences(calls, "save")
            => /\ Occurrences(calls, "save") = 0
               /\ Occurrences(calls, "solve") = 0
       /\ Occurrences(calls', "solve") > Occurrences(calls, "solve")
            => /\ Occurrences(calls, "save") = 1
               /\ Occurrences(calls, "solve") = 0
               /\ calls[Len(calls)] = "save"
               /\ solver = "idle" /\ solver' = "running"
               /\ pc' = "done" /\ exitStatus' = 0
       /\ pc' = "done"
            => /\ Occurrences(calls', "save") = 1
               /\ Occurrences(calls', "solve") = 1
       /\ solver' # solver => solver' \in {"running", "finished"}]_vars

\* The script of either kind is at its end while the analysis is running
C13_Witness ==
    /\ pc = "done"
    /\ solver = "running"
    /\ Occurrences(calls, "save") = 1

---------------------------------------------------------------------------
(* Bridge abutment: what the classifiers select in a validated run *)

AfterSupports == {"materials", "geometric", "loading", "loadcase", "save", "solve", "done"}

\* The line between two points, whichever way round
Between(x1, y1, x2, y2) == LineId(Line(Pt(x1, y1), Pt(x2, y2)))

\* The pairs <<line, attribute>> of one pass
Given(stage, surface) ==
    {<<assigned[i].line, assigned[i].attr>> :
        i \in {k \in Log : assigned[k].stage = stage /\ assigned[k].surface = surface}}

RulesMatching(ln, p) ==
    Cardinality({r \in {"base", "left", "right"} :
        \/ r = "base"  /\ SY(ln) = N(0) /\ EY(ln) = N(0)
        \/ r = "left"  /\ SX(ln) = N(0) /\ EX(ln) = N(0)
        \/ r = "right" /\ SX(ln) = p.w /\ EX(ln) = p.w})

\* C14: in a validated run, of the nine edges of surface 1 the base edge
\* gets FixXY, the left and the right side edge get FixX, the right side edge
\* of surface 3 gets FixX, no other edge of surfaces 1 and 3 gets a support,
\* and no edge of surface 1 satisfies two of the three rules.
C14_AbutmentSupports ==
    (script = "abutment" /\ pc \in AfterSupports) =>
        LET p  == dims
            l1 == surfLines1(dims, x_value, flipped)
        IN  /\ Len(l1) = 9
            /\ Given("support", "surface1") =
                  {<<Between(N(0), N(0), p.w, N(0)), "FixXY">>,
                   <<Between(N(0), p.h1, N(0), N(0)), "FixX">>,
                   <<Between(p.w, N(0), p.w, p.h2), "FixX">>}
            /\ Given("support", "surface3") =
                  {<<Between(p.w, p.h2 \oplus p.h3, p.w, p.h2), "FixX">>}
            /\ Cardinality({i \in Log : assigned[i].stage = "support"}) = 4
            /\ \A i \in 1..Len(l1) : RulesMatching(l1[i], p) <= 1

\* Supports assigned in a run in which the application reports the base
\* edge end-first
C14_Witness ==
    /\ script = "abutment" /\ pc = "done"
    /\ Between(N(0), N(0), dims.w, N(0)) \in flipped
    /\ <<Between(N(0), N(0), dims.w, N(0)), "FixXY">> \in Given("support", "surface1")

---------------------------------------------------------------------------
(* Tunnel: the outer zone, for dimensions whose sums do not fit a float *)

\* The shipped values, and a set an editor may type in whose sums are
\* rounded: -l + b/2 is not a value a float of this Precision holds
OuterDims ==
    {ShippedTunnelDims,
     [ShippedTunnelDims EXCEPT !.b = R(81, 8), !.l = N(40)]}

InitOuter ==
    /\ script = "tunnel"
    /\ dims \in OuterDims
    /\ pc = "connect"
    /\ errors = <<>>
    /\ printed = <<>>
    /\ calls = <<>>
    /\ exitStatus = -1
    /\ x_value = Unset
    /\ flipped = {}
    /\ assigned = <<>>
    /\ loadcases = <<>>
    /\ edge = Line(Pt(N(0), N(0)), Pt(N(0), N(0)))
    /\ geometry = NoGeometry
    /\ activation = <<>>
    /\ solver = "idle"

OuterSpec == InitOuter /\ [][NextTunnel]_vars

TunnelAfterSupports == {"loadcase1", "loadcase2", "loadcase3", "save", "solve", "done"}

\* w/2 > b/2 + a and l > b + a + c, as numbers
OuterZoneProper(p) ==
    /\ (p.w \oslash N(2)) \succ ((p.b \oslash N(2)) \oplus p.a)
    /\ p.l \succ ((p.b \oplus p.a) \oplus p.c)

\* C15: for dimensions with w/2 > b/2 + a and l > b + a + c, of the 14
\* edges of the outer zone the bottom edge gets FixXY, the left and the
\* right edge get FixX, these three and the two top edges get the 4 m
\* mesh, and the nine inner edges get neither.  The outline lists the
\* edges as: top left, left, bottom, right, top right, then the inner nine.
C15_OuterZoneBoundary ==
    (script = "tunnel" /\ pc \in TunnelAfterSupports /\ OuterZoneProper(dims)) =>
        LET outerLines == geometry.refined_zones["outer"].lines
            id(k) == LineId(outerLines[k])
        IN  /\ Len(outerLines) = 14
            /\ Cardinality(IdsOf(outerLines)) = 14
            /\ Given("support", "outer") =
                  {<<id(3), "FixXY">>, <<id(2), "FixX">>, <<id(4), "FixX">>}
            /\ Given("line mesh", "outer") = {<<id(k), "EL 4">> : k \in 1..5}

---------------------------------------------------------------------------
(* Tunnel: the quadrants of the circle, for every orientation of the arcs *)

\* Radii that leave the circle inside the inner box of the shipped values
QuadrantDims ==
    {[ShippedTunnelDims EXCEPT !.radius = r] :
        r \in {R(1, 2), N(1), N(2), N(3), R(37, 8)}}

InitQuadrants ==
    /\ script = "tunnel"
    /\ dims \in QuadrantDims
    /\ pc = "connect"
    /\ errors = <<>>
    /\ printed = <<>>
    /\ calls = <<>>
    /\ exitStatus = -1
    /\ x_value = Unset
    /\ flipped = {}
    /\ assigned = <<>>
    /\ loadcases = <<>>
    /\ edge = Line(Pt(N(0), N(0)), Pt(N(0), N(0)))
    /\ geometry = NoGeometry
    /\ activation = <<>>
    /\ solver = "idle"

\* line 483, with each of the four arcs free to be reported end-first
QCreateTunnelCircle == CreateTunnelCircle(SUBSET ArcIds(dims.radius))

\* The script up to the first line created after the circle (line 489)
NextQuadrants ==
    \/ TConnect
    \/ TNewProject
    \/ QCreateTunnelCircle
    \/ TIdentifyQuadrants
    \/ TCreateBaseSurface

QuadrantsSpec == InitQuadrants /\ [][NextQuadrants]_vars

\* The position of the first occurrence of a call; 0 if there is none
FirstCall(name) ==
    IF \E i \in 1..Len(calls) : calls[i] = name
    THEN CHOOSE i \in 1..Len(calls) :
            calls[i] = name /\ \A j \in 1..(i - 1) : calls[j] # name
    ELSE 0

\* C16: identify_quadrants is called after the circle has been split and
\* before any other line is created, and for every radius and every
\* orientation of each arc the four names are bound to the four arcs, one
\* each: no two arcs are filed under the same name, no name is left None.
C16_QuadrantsAreABijection ==
    (script = "tunnel" /\ FirstCall("getObjects") > 0) =>
        LET radius == dims.radius
            q      == geometry.quadrants
            top    == Pt(N(0), radius)
            bottom == Pt(N(0), RNeg(radius))
            right  == Pt(radius, N(0))
            left   == Pt(RNeg(radius), N(0))
        IN  /\ FirstCall("splitLine") > 0
            /\ FirstCall("splitLine") < FirstCall("getObjects")
            /\ \A j \in 1..FirstCall("getObjects") : calls[j] # "create_line_by_coordinates"
            /\ Cardinality({QuadrantKey(Reported(arc, flipped), radius) :
                               arc \in CircleArcs(radius)}) = 4
            /\ {q.left_top, q.right_top, q.left_bottom, q.right_bottom} = CircleArcs(radius)
            /\ q.left_top = Arc(left, top)
            /\ q.right_top = Arc(top, right)
            /\ q.left_bottom = Arc(bottom, left)
            /\ q.right_bottom = Arc(right, bottom)

\* A run in which three of the four arcs are reported end-first, after the
\* quadrants were identified
C16_Witness ==
    /\ script = "tunnel"
    /\ pc = "base_surface"
    /\ Cardinality(flipped) = 3
    /\ dims.radius = R(37, 8)
    /\ geometry.quadrants.left_top = Arc(Pt(RNeg(dims.radius), N(0)), Pt(N(0), dims.radius))

---------------------------------------------------------------------------
(* Tunnel: the four surfaces of the inner box *)

TunnelAfterMirror ==
    {"tunnel_surface", "zones", "mesh", "joints", "materials", "supports",
     "loadcase1", "loadcase2", "loadcase3", "save", "solve", "done"}

\* The end points of the boundary lines of a surface
PointsOf(sf) == UNION {{sf.lines[i].start, sf.lines[i].end} : i \in 1..Len(sf.lines)}

\* The quadrants of the inner box (side b, centred on the tunnel axis) that
\* hold a whole surface
InnerQuadrantsOf(sf, b) ==
    LET hb == b \oslash N(2)
        in(q, pt) ==
            /\ RNeg(hb) \preceq PX(pt) /\ PX(pt) \preceq hb
            /\ RNeg(hb) \preceq PY(pt) /\ PY(pt) \preceq hb
            /\ (q[1] = "left"   => PX(pt) \preceq N(0))
            /\ (q[1] = "right"  => N(0) \preceq PX(pt))
            /\ (q[2] = "top"    => N(0) \preceq PY(pt))
            /\ (q[2] = "bottom" => PY(pt) \preceq N(0))
    IN  {q \in {"left", "right"} \X {"top", "bottom"} : \A pt \in PointsOf(sf) : in(q, pt)}

\* C17: mirror_surfaces leaves exactly four surfaces, one in each quadrant
\* of the inner box; the tunnel surface and the zones come after them in
\* the database, so the first four surfaces, which step 5 meshes as
\* base_surfaces, are these four.
C17_FourInnerQuadrants ==
    (script = "tunnel" /\ pc \in TunnelAfterMirror) =>
        LET s == geometry.surfaces
        IN  /\ Len(s) >= 4
            /\ (pc = "tunnel_surface" => Len(s) = 4)
            /\ \A i \in 1..4 :
                  /\ s[i].name = "base"
                  /\ Cardinality(InnerQuadrantsOf(s[i], dims.b)) = 1
            /\ UNION {InnerQuadrantsOf(s[i], dims.b) : i \in 1..4}
                  = {"left", "right"} \X {"top", "bottom"}
            /\ \A i \in 5..Len(s) : s[i].name # "base"
            /\ (pc \in TunnelAfterMirror \ {"tunnel_surface", "zones", "mesh"} =>
                  \A i \in 1..4 : MeshedIn(BaseNames[i]) = IdsOf(s[i].lines))

\* A run that has meshed the base surfaces, with the tunnel surface and the
\* nine zones in the database behind them
C17_Witness ==
    /\ script = "tunnel"
    /\ pc = "joints"
    /\ Len(geometry.surfaces) = 14
    /\ InnerQuadrantsOf(geometry.surfaces[4], dims.b) = {<<"right", "bottom">>}
    /\ MeshedIn("base4") = IdsOf(geometry.surfaces[4].lines)

---------------------------------------------------------------------------
(* Bridge abutment: the wall edges *)

AfterGeometric == {"loading", "loadcase", "save", "solve", "done"}

\* The edges a pass over one surface's list gave the attribute to
Selected(stage, surface, attr) ==
    {assigned[i].line :
        i \in {k \in Log : /\ assigned[k].stage = stage
                           /\ assigned[k].surface = surface
                           /\ assigned[k].attr = attr}}

\* The attribute of a stage an edge ends up with: the one assigned last
LastGiven(stage, id) ==
    LET at == {k \in Log : assigned[k].stage = stage /\ assigned[k].line = id}
    IN  assigned[CHOOSE k \in at : \A j \in at : j <= k].attr

\* The edges that end up with the wall beam mesh
WallMeshed ==
    {id \in {assigned[i].line : i \in {k \in Log : assigned[k].stage = "line mesh"}} :
        LastGiven("line mesh", id) = "wall"}

\* C18: over the edge list of surface 2 and over that of surface 3, the
\* line mesh pass gives 'wall' to exactly the edges the material pass gives
\* Concrete and the section pass gives 'Beam Geometry'; the edges that end
\* up with the wall mesh are exactly those with Concrete and with the
\* section.
C18_WallPassesAgree ==
    (script = "abutment" /\ pc \in AfterGeometric) =>
        /\ \A surface \in {"surface2", "surface3"} :
              /\ Selected("line mesh", surface, "wall") = Selected("material", surface, "Concrete")
              /\ Selected("line mesh", surface, "wall") = Selected("geometric", surface, "Beam Geometry")
        /\ WallMeshed = Selected("material", "surface2", "Concrete")
                            \cup Selected("material", "surface3", "Concrete")
        /\ WallMeshed = Selected("geometric", "surface2", "Beam Geometry")
                            \cup Selected("geometric", "surface3", "Beam Geometry")

\* A complete run in which the wall face between surfaces 2 and 3, meshed
\* 'EL 1' in the pass of surface 2 and 'wall' in the pass of surface 3,
\* carries the material and the section, reported end-first
C18_Witness ==
    /\ script = "abutment"
    /\ pc = "done"
    /\ LET wd   == dims.w \ominus dims.d
           face == Between(wd, dims.h2, wd, (dims.h2 \oplus dims.h3) \ominus dims.h4)
       IN  /\ face \in flipped
           /\ <<face, "EL 1">> \in Given("line mesh", "surface2")
           /\ face \in WallMeshed
           /\ face \in Selected("geometric", "surface3", "Beam Geometry")
           /\ Cardinality(WallMeshed) = 4

---------------------------------------------------------------------------
(* Bridge abutment: the two halves of the base *)

\* The edges of a list of lines that have an end at x
Touching(lines, x) ==
    {LineId(lines[i]) : i \in {k \in 1..Len(lines) : SX(lines[k]) = x \/ EX(lines[k]) = x}}

\* C19: in every validated run both halves of the abutment base, the edge
\* (w-d-b, h2)-(w-d, h2) of surface 2 and the edge (w-d, h2)-(w-d+b, h2) of
\* surface 3, and the two vertical wall edges at x = w-d of surface 3 get
\* the wall mesh, Concrete and the beam section, and of the edges of
\* surface 3 that touch x = w-d only the load-projection edge
\* (w-d, h2+h3)-(w-d+f, h2+h3) does not.
C19_BothBaseHalvesAreWall ==
    (script = "abutment" /\ pc \in AfterGeometric) =>
        LET wd    == dims.w \ominus dims.d
            top   == dims.h2 \oplus dims.h3
            left  == Between(wd \ominus dims.b, dims.h2, wd, dims.h2)
            right == Between(wd, dims.h2, wd \oplus dims.b, dims.h2)
            lower == Between(wd, dims.h2, wd, top \ominus dims.h4)
            upper == Between(wd, top \ominus dims.h4, wd, top)
            load  == Between(wd, top, wd \oplus dims.f, top)
            l3    == surfLines3(dims, x_value, flipped)
        IN  /\ left \in Selected("line mesh", "surface2", "wall")
            /\ left \in Selected("material", "surface2", "Concrete")
            /\ left \in Selected("geometric", "surface2", "Beam Geometry")
            /\ \A stage \in {<<"line mesh", "wall">>, <<"material", "Concrete">>,
                             <<"geometric", "Beam Geometry">>} :
                  Selected(stage[1], "surface3", stage[2]) = Touching(l3, wd) \ {load}
            /\ Touching(l3, wd) = {right, lower, upper, load}

---------------------------------------------------------------------------
(* Bridge abutment: the denominator of the slope after validation *)

\* Heights on, next to and beyond the limits of their checks, the other
\* dimensions as shipped
HeightDims ==
    {[ShippedDims EXCEPT !.h1 = v1, !.h2 = v2, !.h3 = v3, !.h4 = v4] :
        v1 \in {N(1), N(8), N(98)},
        v2 \in {N(3), N(10), R(23, 2), N(100)},
        v3 \in {N(2), N(3), N(5), N(100)},
        v4 \in {N(1), R(7, 2), N(4), N(98)}}

InitHeights ==
    /\ script = "abutment"
    /\ dims \in HeightDims
    /\ pc = "validate"
    /\ errors = <<>>
    /\ printed = <<>>
    /\ calls = <<>>
    /\ exitStatus = -1
    /\ x_value = Unset
    /\ flipped = {}
    /\ assigned = <<>>
    /\ loadcases = <<>>
    /\ edge = Line(Pt(N(0), N(0)), Pt(N(0), N(0)))
    /\ geometry = NoGeometry
    /\ activation = <<>>
    /\ solver = "idle"

\* The script up to the computation of x_value (line 158)
NextHeights == AValidate \/ ACheckErrors \/ AConnect \/ ANewProject \/ AXValue

HeightsSpec == InitHeights /\ [][NextHeights]_vars

\* C20: for every dimension set that passed validation h2+h3-h4-h1 is
\* greater than zero, so x_value comes from the division (the branch that
\* leaves x_value = t is not taken) and no division by zero takes place.
C20_DenominatorPositive ==
    (script = "abutment" /\ pc \notin {"validate", "check", "exited"}) =>
        /\ errors = <<>>
        /\ Denominator(dims) \succ N(0)
        /\ (x_value # Unset =>
              /\ x_value = XValueUnguarded(dims)
              /\ x_value # ZeroDivisionError
              /\ x_value \succ dims.t)

\* A validated run with the smallest differences the checks allow between
\* h2 and h1 and between h3 and h4, after x_value was computed
C20_Witness ==
    /\ script = "abutment"
    /\ pc = "surfaces"
    /\ dims.h2 = dims.h1 \oplus N(2)
    /\ dims.h3 = dims.h4 \oplus N(2)
    /\ Denominator(dims) = N(4)
    /\ x_value # Unset

=============================================================================
